---- MODULE Spec2Model ----
(***************************************************************************)
(* A model of the Scott Adams adventure interpreter of src/main.go: the    *)
(* action dispatcher (automatic pass, player dispatch, CONT), the          *)
(* condition evaluator, the command executor, the light update and the     *)
(* save/load codec.  Arrays keep the zero-based indices of the source, so  *)
(* they are functions over 0..N.                                           *)
(***************************************************************************)
EXTENDS Integers, Sequences, FiniteSets, TLC

\* ------------------------------------------------------------------------
\* Constants of the program
\* ------------------------------------------------------------------------
CARRIED == 255
DESTROYED == 0
LIGHT_SOURCE == 9
DARKBIT == 15
LIGHTOUTBIT == 16

\* ------------------------------------------------------------------------
\* The header of the adventure the model runs (the values a data file sets)
\* ------------------------------------------------------------------------
NumItems == 9
NumRooms == 3
MaxCarry == 2
PlayerRoom == 1
Treasures == 1
LightTime == 3
NumMessages == 3
\* Highest message number of the adventure with the long message list
LongMessages == 100
TreasureRoom == 2
AdventureNumber == 1
\* Highest word number of the verbs and of the nouns, and the number of
\* characters of a word that count
NumWords == 5
WordLength == 3
\* Header.NumWords of the adventure the sessions play
GameNumWords == 35
AdventureVersion == 416

\* Inputs of the player: verbs and nouns the parser can deliver
MaxVerb == 6
\* Largest parameter of a raw condition the decoder is applied to
MaxParameter == 12
\* Longest text the tokenizer is applied to
MaxText == 5
MaxNoun == 2
\* Longest record of executed actions kept for one dispatch pass
MaxTrace == 6
\* Number of player commands of one session
MaxTurns == 3
\* Largest magnitude the primary counter may reach in the model
MaxCounter == 4
\* Most -debug arguments on the command line
MaxDebugArgs == 2

\* ------------------------------------------------------------------------
\* Go integer arithmetic: / truncates toward zero, % has the dividend's sign
\* ------------------------------------------------------------------------
GoDiv(a, b) ==
    IF a >= 0 THEN (IF b >= 0 THEN a \div b ELSE -(a \div (-b)))
    ELSE (IF b >= 0 THEN -((-a) \div b) ELSE (-a) \div (-b))

GoMod(a, b) == a - b * GoDiv(a, b)

\* The value 1 << uint(z) of a uint32: zero when the shift count is 32 or
\* more (a negative z converts to a huge unsigned count)
Shl1(z) == IF z < 0 \/ z >= 32 THEN 0 ELSE 2 ^ z

\* Bit z of the uint32 f is set:  f & (1 << z) != 0
BitSet(f, z) == IF z < 0 \/ z >= 32 THEN FALSE ELSE (f \div (2 ^ z)) % 2 = 1

OrBitOverwrite(f, z) == Shl1(z)

\* f |= (1 << z)
OrBit(f, z) == IF BitSet(f, z) THEN f ELSE f + Shl1(z)

\* f &= ^(1 << z)
ClearBit(f, z) == IF BitSet(f, z) THEN f - Shl1(z) ELSE f

\* ------------------------------------------------------------------------
\* The packed fields of the action table
\* ------------------------------------------------------------------------
Vocab(verb, noun) == verb * 150 + noun

Cond(code, parameter) == parameter * 20 + code

Cmd(cmd1, cmd2) == cmd1 * 150 + cmd2

NoConds == <<0, 0, 0, 0, 0>>

LoadActionSwapped(vocab, conds, cmds) ==
    [Verb |-> GoMod(vocab, 150),
     Noun |-> GoDiv(vocab, 150),
     Conditions |-> [j \in 0..4 |-> conds[j + 1]],
     Commands |-> [j \in 0..1 |-> cmds[j + 1]]]

\* One action as LoadGameData stores it: verb and noun decoded, the five
\* conditions and the two command pairs raw
LoadAction(vocab, conds, cmds) ==
    [Verb |-> GoDiv(vocab, 150),
     Noun |-> GoMod(vocab, 150),
     Conditions |-> [j \in 0..4 |-> conds[j + 1]],
     Commands |-> [j \in 0..1 |-> cmds[j + 1]]]

\* A table indexed from 0 as state.Actions is
Table(rows) == [i \in 0..(Len(rows) - 1) |-> rows[i + 1]]

\* ------------------------------------------------------------------------
\* The world of the model: rooms, items and messages of a small adventure
\* ------------------------------------------------------------------------
\* Rooms[r].Exits[d]: room 1 has an exit north to room 2, room 2 an exit
\* south to room 1; the last room is the terminal room and has no exits
Exits == [r \in 0..NumRooms |-> [d \in 0..5 |->
            IF r = 1 /\ d = 0 THEN 2 ELSE IF r = 2 /\ d = 1 THEN 1 ELSE 0]]

\* Items[i].OriginalLocation: items 1, 2 and the light source start in
\* room 1, item 3 (a treasure) in room 2, every other item in room 0
OriginalLocation == [i \in 0..NumItems |->
            IF i \in {1, 2, LIGHT_SOURCE} THEN 1 ELSE IF i = 3 THEN 2 ELSE 0]

\* strings.HasPrefix(Rooms[r].Description, "*"): the description of room 2
\* is written in full, the others follow "I'm in a"
IsDirectDescription(r) == r = 2

\* strings.Contains(Items[i].Description, "*")
IsTreasure(i) == i = 3

\* ------------------------------------------------------------------------
\* Text of a save file: a line is a sequence of characters
\* ------------------------------------------------------------------------
DigitChars == <<"0", "1", "2", "3", "4", "5", "6", "7", "8", "9">>

RECURSIVE UItoa(_)
UItoa(n) == IF n < 10 THEN <<DigitChars[n + 1]>>
            ELSE UItoa(n \div 10) \o <<DigitChars[(n % 10) + 1]>>

\* fmt.Fprintf(file, "%d\n", n): the decimal numeral of n
Itoa(n) == IF n < 0 THEN <<"-">> \o UItoa(-n) ELSE UItoa(n)

DigitValue(c) == CHOOSE d \in 0..9 : DigitChars[d + 1] = c

IsDigits(s) == Len(s) > 0 /\ \A k \in 1..Len(s) : \E d \in 0..9 : DigitChars[d + 1] = s[k]

RECURSIVE DigitsValue(_)
DigitsValue(s) == IF Len(s) = 0 THEN 0
                  ELSE 10 * DigitsValue(SubSeq(s, 1, Len(s) - 1)) + DigitValue(s[Len(s)])

\* The bounds strconv clamps a numeral out of range to
MaxInt64 == 2^63 - 1

MinInt64 == -(2^63)

MaxUint32 == 2^32 - 1

\* The numerals of 2^63 - 1, of 2^63 and of 2^32 - 1
MaxInt64Digits == <<"9", "2", "2", "3", "3", "7", "2", "0", "3", "6", "8", "5", "4",
                    "7", "7", "5", "8", "0", "7">>

MinInt64Digits == <<"9", "2", "2", "3", "3", "7", "2", "0", "3", "6", "8", "5", "4",
                    "7", "7", "5", "8", "0", "8">>

MaxUint32Digits == <<"4", "2", "9", "4", "9", "6", "7", "2", "9", "5">>

\* The digits without their leading zeros
RECURSIVE StripZeros(_)
StripZeros(s) == IF Len(s) > 1 /\ s[1] = "0" THEN StripZeros(Tail(s)) ELSE s

\* The digits a denote a larger number than the digits b (b without
\* leading zeros)
NumeralGreater(a, b) ==
    LET n == StripZeros(a)
    IN \/ Len(n) > Len(b)
       \/ /\ Len(n) = Len(b)
          /\ \E k \in 1..Len(n) :
                /\ DigitValue(n[k]) > DigitValue(b[k])
                /\ \A j \in 1..(k - 1) : n[j] = b[j]

\* strconv.Atoi with the error dropped: an optional sign and decimal
\* digits, read from the left.  The digits that pass uint64 yield the int64
\* bound of the sign (ErrRange) before a later byte is looked at; otherwise
\* a byte that is no digit, or no digit at all, is a syntax error and
\* yields 0; a numeral beyond int64 yields the bound it passed
Atoi(s) ==
    LET signed == Len(s) > 0 /\ s[1] \in {"-", "+"}
        neg == signed /\ s[1] = "-"
        rest == IF signed THEN Tail(s) ELSE s
        bad == {k \in 1..Len(rest) : ~IsDigits(<<rest[k]>>)}
        digits == IF bad = {} THEN rest
                  ELSE SubSeq(rest, 1, (CHOOSE k \in bad : \A j \in bad : k <= j) - 1)
        maxUint64Digits == <<"1", "8", "4", "4", "6", "7", "4", "4", "0", "7", "3",
                             "7", "0", "9", "5", "5", "1", "6", "1", "5">>
    IN IF NumeralGreater(digits, maxUint64Digits)
       THEN (IF neg THEN MinInt64 ELSE MaxInt64)
       ELSE IF bad # {} \/ Len(rest) = 0 THEN 0
       ELSE IF neg
       THEN (IF NumeralGreater(digits, MinInt64Digits) THEN MinInt64
             ELSE -DigitsValue(digits))
       ELSE (IF NumeralGreater(digits, MaxInt64Digits) THEN MaxInt64
             ELSE DigitsValue(digits))

\* strconv.ParseUint(s, 10, 32) with the error dropped: no sign is
\* accepted and the digits are read from the left.  The digits that pass
\* uint32 yield 4294967295 (ErrRange) before a later byte is looked at;
\* otherwise a byte that is no digit, or no digit at all, yields 0
ParseUint(s) ==
    LET bad == {k \in 1..Len(s) : ~IsDigits(<<s[k]>>)}
        digits == IF bad = {} THEN s
                  ELSE SubSeq(s, 1, (CHOOSE k \in bad : \A j \in bad : k <= j) - 1)
    IN IF NumeralGreater(digits, MaxUint32Digits) THEN MaxUint32
       ELSE IF bad # {} \/ Len(s) = 0 THEN 0
       ELSE DigitsValue(digits)

\* The checksum LoadGameData expects in the trailer
ExpectedChecksum(numActions, numItems, version) ==
    (2 * numActions) + numItems + version

ChecksumOkAtLeast(checksum, numActions, numItems, version) ==
    checksum >= ExpectedChecksum(numActions, numItems, version)

\* LoadGameData goes on past the trailer
ChecksumOk(checksum, numActions, numItems, version) ==
    checksum = ExpectedChecksum(numActions, numItems, version)

\* An index into ItemLocations / Items that does not panic
ItemIndexOk(p) == p >= 0 /\ p <= NumItems

\* ------------------------------------------------------------------------
\* Condition evaluator
\* ------------------------------------------------------------------------
\* The condition indexes ItemLocations or Items out of range (a Go panic)
ConditionPanics(code, parameter) ==
    code \in {1, 2, 3, 5, 6, 12, 13, 14, 17, 18} /\ ~ItemIndexOk(parameter)

AnyCarried(s) == \E i \in 0..NumItems : s.ItemLocations[i] = CARRIED

NotAvailableEither(s, parameter) ==
    s.ItemLocations[parameter] # CARRIED \/ s.ItemLocations[parameter] # s.CurrentRoom

\* Condition 12 (-AVL): the item is neither carried nor in the current room
NotAvailable(s, parameter) ==
    s.ItemLocations[parameter] # CARRIED /\ s.ItemLocations[parameter] # s.CurrentRoom

EvaluateCondition(s, code, parameter) ==
    CASE code = 0 -> TRUE
      [] code = 1 -> s.ItemLocations[parameter] = CARRIED
      [] code = 2 -> s.ItemLocations[parameter] = s.CurrentRoom
      [] code = 3 -> s.ItemLocations[parameter] = CARRIED
                     \/ s.ItemLocations[parameter] = s.CurrentRoom
      [] code = 4 -> s.CurrentRoom = parameter
      [] code = 5 -> s.ItemLocations[parameter] # s.CurrentRoom
      [] code = 6 -> s.ItemLocations[parameter] # CARRIED
      [] code = 7 -> s.CurrentRoom # parameter
      [] code = 8 -> BitSet(s.BitFlags, parameter)
      [] code = 9 -> ~BitSet(s.BitFlags, parameter)
      [] code = 10 -> AnyCarried(s)
      [] code = 11 -> ~AnyCarried(s)
      [] code = 12 -> NotAvailable(s, parameter)
      [] code = 13 -> s.ItemLocations[parameter] # DESTROYED
      [] code = 14 -> s.ItemLocations[parameter] = DESTROYED
      [] code = 15 -> s.Counter <= parameter
      [] code = 16 -> s.Counter > parameter
      [] code = 17 -> s.ItemLocations[parameter] = s.Items[parameter].OriginalLocation
      [] code = 18 -> s.ItemLocations[parameter] # s.Items[parameter].OriginalLocation
      [] code = 19 -> s.Counter = parameter
      [] OTHER -> FALSE

\* The line EvaluateCondition prints: its default branch names the code
EvaluateConditionLines(code) ==
    IF code \in 0..19 THEN <<>>
    ELSE <<[text |-> "Unknown condition code:", arg |-> code]>>

ConditionCodeDecimal(encodedCondition) == GoMod(encodedCondition, 10)

\* conditionCode := encodedCondition % 20
ConditionCode(encodedCondition) == GoMod(encodedCondition, 20)

\* parameter := encodedCondition / 20
ConditionParameter(encodedCondition) == GoDiv(encodedCondition, 20)

CheckConditionsFromAll(s, action, j) ==
    LET set == {k \in j..4 : action.Conditions[k] # 0}
        code(k) == ConditionCode(action.Conditions[k])
        par(k) == ConditionParameter(action.Conditions[k])
    IN IF \E k \in set : ConditionPanics(code(k), par(k)) THEN "panic"
       ELSE IF \E k \in set : ~EvaluateCondition(s, code(k), par(k)) THEN "fail"
       ELSE "pass"

\* The five slots from slot j on, left to right: "pass", "fail" at the
\* first slot that evaluates false, "panic" at an index out of range
RECURSIVE CheckConditionsFrom(_, _, _)
CheckConditionsFrom(s, action, j) ==
    IF j > 4 THEN "pass"
    ELSE LET encodedCondition == action.Conditions[j]
             conditionCode == ConditionCode(encodedCondition)
             parameter == ConditionParameter(encodedCondition)
         IN IF encodedCondition = 0 THEN CheckConditionsFrom(s, action, j + 1)
            ELSE IF ConditionPanics(conditionCode, parameter) THEN "panic"
            ELSE IF ~EvaluateCondition(s, conditionCode, parameter) THEN "fail"
            ELSE CheckConditionsFrom(s, action, j + 1)

CheckConditions(s, actionIndex) == CheckConditionsFrom(s, s.Actions[actionIndex], 0)

\* What the calls of EvaluateCondition made by CheckConditions from slot j
\* on have printed when it returns
RECURSIVE ConditionLinesFrom(_, _, _)
ConditionLinesFrom(s, action, j) ==
    IF j > 4 THEN <<>>
    ELSE LET encodedCondition == action.Conditions[j]
             conditionCode == ConditionCode(encodedCondition)
             parameter == ConditionParameter(encodedCondition)
         IN IF encodedCondition = 0 THEN ConditionLinesFrom(s, action, j + 1)
            ELSE IF ConditionPanics(conditionCode, parameter) THEN <<>>
            ELSE EvaluateConditionLines(conditionCode)
                 \o (IF ~EvaluateCondition(s, conditionCode, parameter) THEN <<>>
                     ELSE ConditionLinesFrom(s, action, j + 1))

ConditionLines(s, actionIndex) == ConditionLinesFrom(s, s.Actions[actionIndex], 0)

\* ------------------------------------------------------------------------
\* The process around GameState: c.st is the GameState, c.disk the save
\* file, c.out what the step has printed, c.status whether the process
\* still runs ("running"), has called os.Exit ("exited") or has panicked
\* ("panic"), c.canCreate whether os.Create succeeds.  c.saved remembers
\* the GameState the save file was written from, c.trace the actions
\* executed by the dispatch pass and c.params the sub-commands of the last
\* executed action with the condition slot each took its parameter from.
\* ------------------------------------------------------------------------
Emit(c, text, arg) == [c EXCEPT !.out = Append(@, [text |-> text, arg |-> arg])]

Panic(c) == [c EXCEPT !.status = "panic"]

\* if state.Debug { fmt.Printf("[DEBUG] ...") }
DebugLine(c, text, arg) == IF c.st.Debug THEN Emit(c, text, arg) ELSE c

\* An adventure of LongMessages messages whose actions print message 51
\* (opcode 51), 52 (opcode 102), 99 (opcode 149), 100 (opcode 150) and 101
\* (opcode 151), and two actions, one for verb 1 and an automatic one,
\* whose first condition is a negative number
TableMessages == Table(<<
    LoadAction(Vocab(2, 0), NoConds, <<Cmd(51, 0), 0>>),
    LoadAction(Vocab(3, 0), NoConds, <<Cmd(102, 0), 0>>),
    LoadAction(Vocab(4, 0), NoConds, <<Cmd(149, 0), 0>>),
    LoadAction(Vocab(5, 0), NoConds, <<Cmd(150, 0), 0>>),
    LoadAction(Vocab(6, 0), NoConds, <<Cmd(151, 0), 0>>),
    LoadAction(Vocab(1, 0), <<-1, 0, 0, 0, 0>>, <<Cmd(1, 0), 0>>),
    LoadAction(Vocab(0, 0), <<-21, 0, 0, 0, 0>>, <<Cmd(1, 0), 0>>) >>)

\* Header.NumMessages of the adventure whose action table is actions
HeaderNumMessages(actions) ==
    IF actions = TableMessages THEN LongMessages ELSE NumMessages

\* fmt.Println(state.Messages[n])
PrintMessage(c, n) ==
    IF n < 0 \/ n > c.st.Header.NumMessages THEN Panic(c)
    ELSE Emit(c, "message", c.st.Messages[n])

CarriedCount(s) == Cardinality({i \in 0..NumItems : s.ItemLocations[i] = CARRIED})

GetItemNoLimit(c, itemNumber) ==
    IF itemNumber <= 0 \/ itemNumber > NumItems
    THEN Emit(c, "I don't see that here.", 0)
    ELSE IF c.st.ItemLocations[itemNumber] # c.st.CurrentRoom
    THEN DebugLine(Emit(c, "I don't see that here.", 0),
                   "[DEBUG] Item is not in current room", itemNumber)
    ELSE DebugLine(Emit([c EXCEPT !.st.ItemLocations[itemNumber] = CARRIED],
                        "I'm now carrying the", itemNumber),
                   "[DEBUG] Picked up item, now in inventory", itemNumber)

GetItem(c, itemNumber) ==
    IF itemNumber <= 0 \/ itemNumber > NumItems
    THEN Emit(c, "I don't see that here.", 0)
    ELSE IF c.st.ItemLocations[itemNumber] # c.st.CurrentRoom
    THEN DebugLine(Emit(c, "I don't see that here.", 0),
                   "[DEBUG] Item is not in current room", itemNumber)
    ELSE IF CarriedCount(c.st) >= c.st.Header.MaxCarry
    THEN Emit(c, "I'm carrying too much already.", 0)
    ELSE DebugLine(Emit([c EXCEPT !.st.ItemLocations[itemNumber] = CARRIED],
                        "I'm now carrying the", itemNumber),
                   "[DEBUG] Picked up item, now in inventory", itemNumber)

DropItemAnywhere(c, itemNumber) ==
    IF itemNumber <= 0 \/ itemNumber > NumItems
    THEN Emit(c, "I don't have that.", 0)
    ELSE DebugLine(Emit([c EXCEPT !.st.ItemLocations[itemNumber] = c.st.CurrentRoom],
                        "I've dropped the", itemNumber),
                   "[DEBUG] Dropped item, now in room", itemNumber)

DropItem(c, itemNumber) ==
    IF itemNumber <= 0 \/ itemNumber > NumItems
    THEN Emit(c, "I don't have that.", 0)
    ELSE IF c.st.ItemLocations[itemNumber] # CARRIED
    THEN DebugLine(Emit(c, "I don't have that.", 0),
                   "[DEBUG] Item is not carried", itemNumber)
    ELSE DebugLine(Emit([c EXCEPT !.st.ItemLocations[itemNumber] = c.st.CurrentRoom],
                        "I've dropped the", itemNumber),
                   "[DEBUG] Dropped item, now in room", itemNumber)

RECURSIVE InventoryLines(_, _)
InventoryLines(s, i) ==
    IF i > NumItems THEN <<>>
    ELSE (IF s.ItemLocations[i] = CARRIED THEN <<[text |-> "-", arg |-> i]>> ELSE <<>>)
         \o InventoryLines(s, i + 1)

DisplayInventory(c) ==
    LET lines == InventoryLines(c.st, 0)
        c1 == Emit(c, "I'm carrying:", 0)
        c2 == [c1 EXCEPT !.out = @ \o lines]
    IN IF Len(lines) = 0 THEN Emit(c2, "Nothing.", 0) ELSE c2

DisplayScore(c) ==
    LET treasureCount == Cardinality({i \in 0..NumItems :
                             c.st.ItemLocations[i] = c.st.Header.TreasureRoom
                             /\ IsTreasure(i)})
        c1 == Emit(c, "I've stored treasures.", treasureCount)
    IN IF c.st.Header.Treasures = 0 THEN Panic(c1)
       ELSE LET c2 == Emit(c1, "On a scale of 0 to 100, that rates a",
                           GoDiv(treasureCount * 100, c.st.Header.Treasures))
            IN IF treasureCount = c.st.Header.Treasures
               THEN Emit(c2, "Well done! You've found all the treasures!", 0)
               ELSE c2

IsDark(s) == BitSet(s.BitFlags, DARKBIT)
             /\ s.ItemLocations[LIGHT_SOURCE] # CARRIED
             /\ s.ItemLocations[LIGHT_SOURCE] # s.CurrentRoom

\* ------------------------------------------------------------------------
\* Save / load codec
\* ------------------------------------------------------------------------
\* The fields a save file holds
Persisted(s) ==
    [CurrentRoom |-> s.CurrentRoom, Counter |-> s.Counter, BitFlags |-> s.BitFlags,
     AltCounters |-> s.AltCounters, AltRooms |-> s.AltRooms,
     ItemLocations |-> s.ItemLocations]

SaveLinesCounterFirst(s) ==
    <<Itoa(AdventureNumber), Itoa(s.Counter), Itoa(s.CurrentRoom),
      Itoa(s.BitFlags), Itoa(s.AltCounters[8])>>
    \o [k \in 1..6 |-> Itoa(s.AltRooms[k - 1])]
    \o [k \in 1..8 |-> Itoa(s.AltCounters[k - 1])]
    \o [k \in 1..(NumItems + 1) |-> Itoa(s.ItemLocations[k - 1])]

\* The lines SaveGame writes, in file order
SaveLines(s) ==
    <<Itoa(AdventureNumber), Itoa(s.CurrentRoom), Itoa(s.Counter),
      Itoa(s.BitFlags), Itoa(s.AltCounters[8])>>
    \o [k \in 1..6 |-> Itoa(s.AltRooms[k - 1])]
    \o [k \in 1..8 |-> Itoa(s.AltCounters[k - 1])]
    \o [k \in 1..(NumItems + 1) |-> Itoa(s.ItemLocations[k - 1])]

SaveGame(c) ==
    LET c1 == Emit(c, "Enter filename to save: ", 0)
    IN IF ~c.canCreate THEN Emit(c1, "Error creating save file", 0)
       ELSE Emit([c1 EXCEPT !.disk = [exists |-> TRUE, lines |-> SaveLines(c.st)],
                            !.saved = Persisted(c.st)],
                 "Game saved.", 0)

AdventureMatchesAny(advNum) == TRUE

\* The save file belongs to the running adventure
AdventureMatches(advNum) == advNum = AdventureNumber

LoadGameStoresItems(c, f) ==
    LET c1 == Emit(c, "Enter filename to load: ", 0)
        n == Len(f.lines)
        s == c.st
        line(k) == f.lines[k]
    IN IF ~f.exists THEN Emit(c1, "Error opening save file", 0)
       ELSE IF n < 1 THEN Emit(c1, "Error reading save file.", 0)
       ELSE IF ~AdventureMatches(Atoi(line(1)))
       THEN Emit(c1, "This save file is for a different adventure.", 0)
       ELSE LET loaded ==
                  [s EXCEPT
                     !.CurrentRoom = IF n >= 2 THEN Atoi(line(2)) ELSE @,
                     !.Counter = IF n >= 3 THEN Atoi(line(3)) ELSE @,
                     !.BitFlags = IF n >= 4 THEN ParseUint(line(4)) ELSE @,
                     !.AltRooms = [i \in 0..5 |->
                                     IF n >= 6 + i THEN Atoi(line(6 + i)) ELSE @[i]],
                     !.AltCounters = [i \in 0..8 |->
                                     IF i = 8 THEN (IF n >= 5 THEN Atoi(line(5)) ELSE @[8])
                                     ELSE IF n >= 12 + i THEN Atoi(line(12 + i)) ELSE @[i]],
                     !.ItemLocations = [i \in 0..NumItems |->
                                     IF n >= 20 + i THEN Atoi(line(20 + i)) ELSE @[i]],
                     !.Items = [i \in 0..NumItems |->
                                     IF n >= 20 + i
                                     THEN [Location |-> Atoi(line(20 + i)),
                                           OriginalLocation |-> Atoi(line(20 + i))]
                                     ELSE @[i]]]
            IN IF n < 20 + NumItems
               THEN Emit([c1 EXCEPT !.st = loaded], "Error reading save file.", 0)
               ELSE Emit([c1 EXCEPT !.st = [loaded EXCEPT !.DisplayedRoom = FALSE]],
                         "Game loaded.", 0)

\* LoadGame reading the file f: each field is assigned as soon as its line
\* has been scanned, so a file of n lines overwrites the fields of its
\* first n lines and then reports the read error
LoadGame(c, f) ==
    LET c1 == Emit(c, "Enter filename to load: ", 0)
        n == Len(f.lines)
        s == c.st
        line(k) == f.lines[k]
    IN IF ~f.exists THEN Emit(c1, "Error opening save file", 0)
       ELSE IF n < 1 THEN Emit(c1, "Error reading save file.", 0)
       ELSE IF ~AdventureMatches(Atoi(line(1)))
       THEN Emit(c1, "This save file is for a different adventure.", 0)
       ELSE LET loaded ==
                  [s EXCEPT
                     !.CurrentRoom = IF n >= 2 THEN Atoi(line(2)) ELSE @,
                     !.Counter = IF n >= 3 THEN Atoi(line(3)) ELSE @,
                     !.BitFlags = IF n >= 4 THEN ParseUint(line(4)) ELSE @,
                     !.AltRooms = [i \in 0..5 |->
                                     IF n >= 6 + i THEN Atoi(line(6 + i)) ELSE @[i]],
                     !.AltCounters = [i \in 0..8 |->
                                     IF i = 8 THEN (IF n >= 5 THEN Atoi(line(5)) ELSE @[8])
                                     ELSE IF n >= 12 + i THEN Atoi(line(12 + i)) ELSE @[i]],
                     !.ItemLocations = [i \in 0..NumItems |->
                                     IF n >= 20 + i THEN Atoi(line(20 + i)) ELSE @[i]]]
            IN IF n < 20 + NumItems
               THEN Emit([c1 EXCEPT !.st = loaded], "Error reading save file.", 0)
               ELSE Emit([c1 EXCEPT !.st = [loaded EXCEPT !.DisplayedRoom = FALSE]],
                         "Game loaded.", 0)

\* ------------------------------------------------------------------------
\* Command executor
\* ------------------------------------------------------------------------
\* The parameter of the sub-command at cmdPosition: the decoded parameter of
\* that condition slot of the action being executed
CommandParameter(s, cmdPosition) ==
    IF cmdPosition < 5
    THEN GoDiv(s.Actions[s.CurrentAction].Conditions[cmdPosition], 20)
    ELSE 0

FillKeepsLocation(c) ==
    [c EXCEPT !.st.AltCounters[8] = c.st.Header.LightTime,
              !.st.BitFlags = ClearBit(@, LIGHTOUTBIT)]

\* Opcode 69 (FILL): the light counter is reset, flag 16 cleared and the
\* light source moved to the inventory
Fill(c) ==
    [c EXCEPT !.st.AltCounters[8] = c.st.Header.LightTime,
              !.st.BitFlags = ClearBit(@, LIGHTOUTBIT),
              !.st.ItemLocations[LIGHT_SOURCE] = CARRIED]

NextParameterSameSlot(s, cmdPosition) ==
    GoDiv(s.Actions[s.CurrentAction].Conditions[cmdPosition], 20)

\* The second parameter of opcodes 62, 72 and 75: the decoded parameter of
\* the condition slot after the command's own
NextParameter(s, cmdPosition) ==
    GoDiv(s.Actions[s.CurrentAction].Conditions[cmdPosition + 1], 20)

SwapCurrentRoomCopies(c, k) ==
    [c EXCEPT !.st.CurrentRoom = c.st.AltRooms[k], !.st.DisplayedRoom = FALSE]

\* Opcodes 80 and 87: CurrentRoom and AltRooms[k] exchange their values
SwapCurrentRoom(c, k) ==
    [c EXCEPT !.st.CurrentRoom = c.st.AltRooms[k],
              !.st.AltRooms[k] = c.st.CurrentRoom,
              !.st.DisplayedRoom = FALSE]

CounterMinusFloorZero(counter, parameter) ==
    IF counter - parameter < 0 THEN 0 ELSE counter - parameter

\* Opcode 83: the counter less parameter, -1 when that is below -1
CounterMinus(counter, parameter) ==
    IF counter - parameter < -1 THEN -1 ELSE counter - parameter

ExecuteCommand(c, cmd, cmdPosition) ==
    LET s == c.st
        parameter == CommandParameter(s, cmdPosition)
        nextParam == NextParameter(s, cmdPosition)
    IN CASE cmd >= 1 /\ cmd <= 51 -> PrintMessage(c, cmd)
         [] cmd >= 102 /\ cmd <= 149 -> PrintMessage(c, cmd - 50)
         [] cmd = 52 -> GetItem(c, parameter)
         [] cmd = 53 -> DropItem(c, parameter)
         [] cmd = 54 -> [c EXCEPT !.st.CurrentRoom = parameter, !.st.DisplayedRoom = FALSE]
         [] cmd \in {55, 59} ->
              IF ItemIndexOk(parameter)
              THEN [c EXCEPT !.st.ItemLocations[parameter] = DESTROYED] ELSE Panic(c)
         [] cmd = 56 -> [c EXCEPT !.st.BitFlags = OrBit(@, DARKBIT)]
         [] cmd = 57 -> [c EXCEPT !.st.BitFlags = ClearBit(@, DARKBIT)]
         [] cmd = 58 -> [c EXCEPT !.st.BitFlags = OrBit(@, parameter)]
         [] cmd = 60 -> [c EXCEPT !.st.BitFlags = ClearBit(@, parameter)]
         [] cmd = 61 -> [c EXCEPT !.st.CurrentRoom = NumRooms, !.st.DisplayedRoom = FALSE]
         [] cmd = 62 ->
              IF cmdPosition < 5
              THEN (IF ItemIndexOk(parameter)
                    THEN [c EXCEPT !.st.ItemLocations[parameter] = nextParam]
                    ELSE Panic(c))
              ELSE c
         [] cmd = 63 -> [Emit(c, "Game over! You've completed the adventure!", 0)
                           EXCEPT !.status = "exited"]
         [] cmd \in {64, 76} -> [c EXCEPT !.st.DisplayedRoom = FALSE]
         [] cmd = 65 -> DisplayScore(c)
         [] cmd = 66 -> DisplayInventory(c)
         [] cmd = 67 -> [c EXCEPT !.st.BitFlags = OrBit(@, 0)]
         [] cmd = 68 -> [c EXCEPT !.st.BitFlags = ClearBit(@, 0)]
         [] cmd = 69 -> Fill(c)
         [] cmd = 70 -> Emit(c, "clear screen", 0)
         [] cmd = 71 -> SaveGame(c)
         [] cmd = 72 ->
              IF cmdPosition < 4
              THEN (IF ItemIndexOk(parameter) /\ ItemIndexOk(nextParam)
                    THEN [c EXCEPT !.st.ItemLocations =
                            [@ EXCEPT ![parameter] = s.ItemLocations[nextParam],
                                      ![nextParam] = s.ItemLocations[parameter]]]
                    ELSE Panic(c))
              ELSE c
         [] cmd = 73 -> [c EXCEPT !.st.ContinueFlag = TRUE]
         [] cmd = 74 ->
              IF ItemIndexOk(parameter)
              THEN [c EXCEPT !.st.ItemLocations[parameter] = CARRIED] ELSE Panic(c)
         [] cmd = 75 ->
              IF cmdPosition < 4
              THEN (IF ItemIndexOk(parameter) /\ ItemIndexOk(nextParam)
                    THEN [c EXCEPT !.st.ItemLocations[parameter] = s.ItemLocations[nextParam]]
                    ELSE Panic(c))
              ELSE c
         [] cmd = 77 -> [c EXCEPT !.st.Counter = @ - 1]
         [] cmd = 78 -> Emit(c, "Counter =", s.Counter)
         [] cmd = 79 -> [c EXCEPT !.st.Counter = parameter]
         [] cmd = 80 -> SwapCurrentRoom(c, 0)
         [] cmd = 81 ->
              IF parameter >= 0 /\ parameter <= 8
              THEN [c EXCEPT !.st.Counter = s.AltCounters[parameter],
                             !.st.AltCounters[parameter] = s.Counter]
              ELSE Panic(c)
         [] cmd = 82 -> [c EXCEPT !.st.Counter = @ + parameter]
         [] cmd = 83 -> [c EXCEPT !.st.Counter = CounterMinus(@, parameter)]
         [] cmd = 86 -> Emit(c, "", 0)
         [] cmd = 87 ->
              IF parameter >= 0 /\ parameter <= 5
              THEN SwapCurrentRoom(c, parameter)
              ELSE Panic(c)
         [] OTHER -> c

\* The condition slot ExecuteCommands hands to the sub-command sub (1 or 2)
\* of command pair i (0 or 1)
CmdPosition(i, sub) == IF sub = 1 THEN 0 ELSE i + 1

ExecuteSubAfterExit(c, i, sub, cmd) ==
    LET pos == CmdPosition(i, sub)
        noted == [c EXCEPT !.params = Append(@,
                     [pair |-> i, sub |-> sub, cmd |-> cmd, cmdPosition |-> pos,
                      parameter |-> CommandParameter(c.st, pos)])]
    IN ExecuteCommand(noted, cmd, pos)

\* One sub-command of ExecuteCommands; nothing runs once the process has
\* exited or panicked
ExecuteSub(c, i, sub, cmd) ==
    IF c.status # "running" THEN c
    ELSE LET pos == CmdPosition(i, sub)
             noted == [c EXCEPT !.params = Append(@,
                          [pair |-> i, sub |-> sub, cmd |-> cmd, cmdPosition |-> pos,
                           parameter |-> CommandParameter(c.st, pos)])]
         IN ExecuteCommand(noted, cmd, pos)

\* One command pair of ExecuteCommands: a raw 0 is skipped
ExecutePair(c, i) ==
    LET cmd == c.st.Actions[c.st.CurrentAction].Commands[i]
    IN IF cmd = 0 THEN c
       ELSE ExecuteSub(ExecuteSub(c, i, 1, GoDiv(cmd, 150)), i, 2, GoMod(cmd, 150))

\* The debug line at the end of ExecuteCommands: an action that has ended
\* the process does not reach it
ExecutedLine(c, actionIndex) ==
    IF c.status = "running" /\ c.st.Debug
    THEN Emit(c, "[DEBUG] Executed action", actionIndex)
    ELSE c

\* ExecuteCommands: CurrentAction is set and the two command pairs run
ExecuteCommands(c, actionIndex) ==
    LET c0 == [c EXCEPT !.st.CurrentAction = actionIndex,
                        !.params = <<>>,
                        !.trace = IF Len(@) < MaxTrace THEN Append(@, actionIndex) ELSE @]
    IN ExecutedLine(ExecutePair(ExecutePair(c0, 0), 1), actionIndex)

\* ------------------------------------------------------------------------
\* Player dispatch
\* ------------------------------------------------------------------------
NumActions(s) == Cardinality(DOMAIN s.Actions) - 1

StopScanAlwaysContinue(s) == FALSE

\* ProcessExactAction leaves its loop after an executed action unless
\* ContinueFlag is set
StopScan(s) == ~s.ContinueFlag

\* The process after CheckConditions on the action at actionIndex has
\* returned false: what the evaluation has printed is on the output (an
\* evaluation that prints returns false)
Checked(c, actionIndex) == [c EXCEPT !.out = @ \o ConditionLines(c.st, actionIndex)]

\* The loop of ProcessExactAction from index i on; r.c is the process and
\* r.found the local variable found
RECURSIVE ProcessExactActionFrom(_, _, _, _)
ProcessExactActionFrom(r, verb, noun, i) ==
    IF i > NumActions(r.c.st) \/ r.c.status # "running" THEN r
    ELSE LET action == r.c.st.Actions[i]
         IN IF action.Verb = verb /\ action.Noun = noun
            THEN LET check == CheckConditions(r.c.st, i)
                 IN IF check = "panic" THEN [r EXCEPT !.c = Panic(@)]
                    ELSE IF check = "pass"
                    THEN LET c1 == ExecuteCommands(r.c, i)
                             r1 == [c |-> c1, found |-> TRUE]
                         IN IF StopScan(c1.st) THEN r1
                            ELSE ProcessExactActionFrom(r1, verb, noun, i + 1)
                    ELSE ProcessExactActionFrom([r EXCEPT !.c = Checked(@, i)],
                                                verb, noun, i + 1)
            ELSE ProcessExactActionFrom(r, verb, noun, i + 1)

ProcessExactAction(c, verb, noun) ==
    ProcessExactActionFrom([c |-> c, found |-> FALSE], verb, noun, 0)

ProcessActionsWithVerb(c, verb, noun) ==
    LET r1 == ProcessExactAction(c, verb, noun)
    IN IF r1.c.status # "running" \/ r1.found THEN r1.c
       ELSE LET r2 == IF noun # 0 THEN ProcessExactAction(r1.c, verb, 0)
                      ELSE [c |-> r1.c, found |-> FALSE]
            IN IF r2.c.status # "running" \/ r2.found THEN r2.c
               ELSE IF verb = 10 THEN GetItem(r2.c, noun)
               ELSE IF verb = 18 THEN DropItem(r2.c, noun)
               ELSE Emit(r2.c, "I don't understand how to do that.", 0)

\* roll is the value of rand.Intn(100), drawn only when the room is dark
MovePlayer(c, direction, roll) ==
    IF IsDark(c.st) /\ roll < 25
    THEN [Emit(c, "I fell into a pit and broke every bone in my body!", 0)
            EXCEPT !.st.CurrentRoom = NumRooms, !.st.DisplayedRoom = FALSE]
    ELSE IF c.st.CurrentRoom < 0 \/ c.st.CurrentRoom > NumRooms THEN Panic(c)
    ELSE LET nextRoom == c.st.Rooms[c.st.CurrentRoom].Exits[direction]
         IN IF nextRoom = 0 THEN Emit(c, "I can't go that way.", 0)
            ELSE [c EXCEPT !.st.CurrentRoom = nextRoom, !.st.DisplayedRoom = FALSE]

\* DisplayHelp prints nine lines
DisplayHelp(c) ==
    [c EXCEPT !.out = @ \o [k \in 1..9 |->
        [text |-> << "Commands you can use:",
                     "- Direction commands: NORTH (N), SOUTH (S), EAST (E), WEST (W), UP (U), DOWN (D)",
                     "- GET/TAKE [item]: Pick up an item",
                     "- DROP [item]: Drop an item you're carrying",
                     "- INVENTORY/I: See what you're carrying",
                     "- LOOK: Look around again",
                     "- SCORE: See your current score",
                     "- SAVE/LOAD: Save or load your game",
                     "- QUIT: End the game" >>[k],
         arg |-> 0]]]

\* The lines FindItemByName, GetWordNumber and ParseCommand have printed
\* for the line: they appear when Debug is set
Lookups(c, in) == IF c.st.Debug THEN [c EXCEPT !.out = @ \o in.lookups] ELSE c

\* ProcessCommand after ParseCommand: GO with a direction, GET and DROP
\* with a noun, and the action table for everything else
ProcessParsed(c, in) ==
    IF in.verb = 1 /\ in.noun >= 1 /\ in.noun <= 6
    THEN MovePlayer(DebugLine(c, "[DEBUG] GO direction via action system", in.noun - 1),
                    in.noun - 1, in.roll)
    ELSE IF in.verb = 10 /\ in.noun > 0
    THEN GetItem(DebugLine(c, "[DEBUG] GET item via action system", in.noun), in.noun)
    ELSE IF in.verb = 18 /\ in.noun > 0
    THEN DropItem(DebugLine(c, "[DEBUG] DROP item via action system", in.noun), in.noun)
    ELSE ProcessActionsWithVerb(c, in.verb, in.noun)

\* ProcessCommand on a line the parser has classified: in.kind is the branch
\* the words select, in.verb and in.noun the result of ParseCommand, in.dir
\* a direction 0..5, in.item the result of FindItemByName, in.lookups the
\* debug lines of these lookups, in.roll the random draw of MovePlayer and
\* in.file the file a LOAD opens
ProcessCommand(c, in) ==
    CASE in.kind = "empty" -> c
      [] in.kind = "inventory" -> DisplayInventory(c)
      [] in.kind = "look" -> [c EXCEPT !.st.DisplayedRoom = FALSE]
      [] in.kind = "save" -> SaveGame(c)
      [] in.kind = "load" -> LoadGame(c, in.file)
      [] in.kind = "score" -> DisplayScore(c)
      [] in.kind = "debug" ->
           Emit([c EXCEPT !.st.Debug = ~@],
                IF c.st.Debug THEN "Debug mode: false" ELSE "Debug mode: true", 0)
      [] in.kind = "help" -> DisplayHelp(c)
      [] in.kind = "direction" -> MovePlayer(c, in.dir, in.roll)
      [] in.kind = "godirection" ->
           MovePlayer(DebugLine(c, "[DEBUG] Direct GO command", in.dir), in.dir, in.roll)
      [] in.kind = "getname" ->
           GetItem(DebugLine(Lookups(c, in), "[DEBUG] Direct GET command for item",
                             in.item), in.item)
      [] in.kind = "dropname" ->
           DropItem(DebugLine(Lookups(c, in), "[DEBUG] Direct DROP command for item",
                              in.item), in.item)
      [] in.kind = "words" ->
           ProcessParsed(DebugLine(Lookups(c, in), "[DEBUG] Verb, Noun",
                                   Vocab(in.verb, in.noun)), in)
      [] OTHER -> c

UpdateLightSourceEarly(c) ==
    IF c.st.ItemLocations[LIGHT_SOURCE] = CARRIED /\ ~IsDark(c.st)
    THEN LET light == c.st.AltCounters[8] - 1
             c1 == [c EXCEPT !.st.AltCounters[8] = light]
         IN IF light <= 1
            THEN [Emit(c1, "Light has run out!", 0)
                    EXCEPT !.st.BitFlags = OrBit(@, LIGHTOUTBIT),
                           !.st.ItemLocations[LIGHT_SOURCE] = DESTROYED]
            ELSE IF light <= 10 THEN Emit(c1, "Light is getting dim.", 0)
            ELSE c1
    ELSE c

UpdateLightSource(c) ==
    IF c.st.ItemLocations[LIGHT_SOURCE] = CARRIED /\ ~IsDark(c.st)
    THEN LET light == c.st.AltCounters[8] - 1
             c1 == [c EXCEPT !.st.AltCounters[8] = light]
         IN IF light <= 0
            THEN [Emit(c1, "Light has run out!", 0)
                    EXCEPT !.st.BitFlags = OrBit(@, LIGHTOUTBIT),
                           !.st.ItemLocations[LIGHT_SOURCE] = DESTROYED]
            ELSE IF light <= 10 THEN Emit(c1, "Light is getting dim.", 0)
            ELSE c1
    ELSE c

\* The lines "I can see ... here" of the items i..NumItems that are in
\* the current room, in the order of their numbers
RECURSIVE VisibleItemLines(_, _)
VisibleItemLines(s, i) ==
    IF i > NumItems THEN <<>>
    ELSE (IF s.ItemLocations[i] = s.CurrentRoom
          THEN <<[text |-> "I can see here", arg |-> i]>> ELSE <<>>)
         \o VisibleItemLines(s, i + 1)

\* The directions of the exits line: bit d stands for direction d
RECURSIVE ExitsFrom(_, _)
ExitsFrom(room, d) ==
    IF d > 5 THEN 0
    ELSE (IF room.Exits[d] # 0 THEN 2 ^ d ELSE 0) + ExitsFrom(room, d + 1)

\* DisplayCurrentLocation: the darkness line, or the description of the
\* room (as written when it starts with *, after "I'm in a" otherwise),
\* a line for every item in the room and the line of the exits
DisplayCurrentLocation(c) ==
    IF IsDark(c.st) THEN Emit(c, "It is too dark to see", 0)
    ELSE IF c.st.CurrentRoom < 0 \/ c.st.CurrentRoom > NumRooms THEN Panic(c)
    ELSE LET room == c.st.Rooms[c.st.CurrentRoom]
             c1 == IF IsDirectDescription(room.Description)
                   THEN Emit(c, "description", room.Description)
                   ELSE Emit(c, "I'm in a", room.Description)
             c2 == [c1 EXCEPT !.out = @ \o VisibleItemLines(c.st, 0)]
         IN IF ExitsFrom(room, 0) # 0 THEN Emit(c2, "Obvious exits:", ExitsFrom(room, 0))
            ELSE Emit(c2, "Obvious exits: NONE", 0)

\* ------------------------------------------------------------------------
\* Action tables of the adventures the model runs
\* ------------------------------------------------------------------------
\* A (verb 5, any noun) issues CONT; B and C are verb-0/noun-0 actions, B
\* with a failing condition (flag 1 is never set), C with none
TableCont == Table(<<
    LoadAction(Vocab(5, 0), NoConds, <<Cmd(1, 73), 0>>),
    LoadAction(Vocab(0, 0), <<Cond(8, 1), 0, 0, 0, 0>>, <<Cmd(2, 0), 0>>),
    LoadAction(Vocab(0, 0), NoConds, <<Cmd(3, 0), 0>>) >>)

\* Verb 5: a noun-0 action that passes once (it sets the flag it tests), an
\* exact-noun action and a second noun-0 action.  Verb 6: an action issuing
\* CONT followed by two actions that do not
TableOrder == Table(<<
    LoadAction(Vocab(5, 0), <<Cond(9, 1), 0, 0, 0, 0>>, <<Cmd(58, 1), 0>>),
    LoadAction(Vocab(5, 2), NoConds, <<Cmd(2, 0), 0>>),
    LoadAction(Vocab(5, 0), NoConds, <<Cmd(3, 0), 0>>),
    LoadAction(Vocab(6, 0), NoConds, <<Cmd(73, 0), 0>>),
    LoadAction(Vocab(6, 0), NoConds, <<Cmd(1, 0), 0>>),
    LoadAction(Vocab(6, 0), NoConds, <<Cmd(2, 0), 0>>) >>)

\* Automatic actions: one that issues CONT once (it sets the flag it tests),
\* one that issues CONT whenever flag 3 is set, and one that sets flag 3 in
\* the first automatic pass
TableAuto == Table(<<
    LoadAction(Vocab(0, 0), <<Cond(9, 1), 0, 0, 0, 0>>, <<Cmd(58, 73), 0>>),
    LoadAction(Vocab(0, 0), <<Cond(8, 3), 0, 0, 0, 0>>, <<Cmd(73, 0), 0>>),
    LoadAction(Vocab(0, 0), <<Cond(9, 3), 0, 0, 0, 0>>, <<Cmd(58, 0), 0>>),
    LoadAction(Vocab(5, 0), NoConds, <<Cmd(1, 0), 0>>) >>)

\* Parameter threading over both command pairs, the SAVE and FINI opcodes,
\* the counter, the light source and two percent-chance automatic actions
TableParams == Table(<<
    LoadAction(Vocab(5, 0), <<Cond(0, 2), Cond(0, 1), Cond(0, 3), 0, 0>>,
               <<Cmd(54, 58), Cmd(79, 60)>>),
    LoadAction(Vocab(6, 1), NoConds, <<Cmd(63, 1), 0>>),
    LoadAction(Vocab(6, 0), NoConds, <<Cmd(71, 77), 0>>),
    LoadAction(Vocab(0, 100), <<Cond(16, 1), 0, 0, 0, 0>>, <<Cmd(77, 0), 0>>),
    LoadAction(Vocab(0, 50), <<Cond(9, 4), 0, 0, 0, 0>>, <<Cmd(58, 0), 0>>),
    LoadAction(Vocab(4, 0), NoConds, <<Cmd(69, 0), 0>>) >>)

\* Item opcodes: GET and DROP of an item by opcode, an action that marks the
\* light as run out (sets flag 16, destroys the light source), FILL once the
\* light has run out, an action "set flag 1, then move the light source to
\* room 2" written over both command pairs, two actions that name an item
\* and a message the adventure does not have, an action of the
\* adventure's own for GET (verb 10) of item 1, and an action that puts the
\* light source in the inventory whatever its state (opcode 74)
TableItems == Table(<<
    LoadAction(Vocab(3, 0), <<Cond(0, 2), 0, 0, 0, 0>>, <<Cmd(52, 0), 0>>),
    LoadAction(Vocab(2, 0), <<Cond(0, 1), 0, 0, 0, 0>>, <<Cmd(53, 0), 0>>),
    LoadAction(Vocab(5, 0), <<Cond(0, LIGHTOUTBIT), Cond(0, LIGHT_SOURCE), 0, 0, 0>>,
               <<Cmd(58, 59), 0>>),
    LoadAction(Vocab(4, 1), <<Cond(14, LIGHT_SOURCE), Cond(8, LIGHTOUTBIT), 0, 0, 0>>,
               <<Cmd(69, 0), 0>>),
    LoadAction(Vocab(6, 0), <<Cond(0, 1), Cond(0, LIGHT_SOURCE), Cond(0, 2), 0, 0>>,
               <<Cmd(58, 0), Cmd(62, 0)>>),
    LoadAction(Vocab(6, 1), <<Cond(1, NumItems + 1), 0, 0, 0, 0>>, <<Cmd(1, 0), 0>>),
    LoadAction(Vocab(6, 2), NoConds, <<Cmd(NumMessages + 1, 0), 0>>),
    LoadAction(Vocab(10, 1), NoConds, <<Cmd(2, 0), 0>>),
    LoadAction(Vocab(5, 1), <<Cond(0, LIGHT_SOURCE), 0, 0, 0, 0>>, <<Cmd(74, 0), 0>>) >>)

\* An adventure that moves items with two-parameter opcodes: swap items 1
\* and 3, put item 2 where item 3 is, and "message 1, then move item 2 to
\* room 2" with the move as second sub-command of the first pair
TableMoves == Table(<<
    LoadAction(Vocab(3, 1), <<Cond(0, 1), Cond(0, 3), 0, 0, 0>>, <<Cmd(72, 0), 0>>),
    LoadAction(Vocab(3, 2), <<Cond(0, 2), Cond(0, 3), 0, 0, 0>>, <<Cmd(75, 0), 0>>),
    LoadAction(Vocab(2, 1), <<Cond(0, 3), Cond(0, 2), Cond(0, 2), 0, 0>>,
               <<Cmd(1, 62), 0>>) >>)

\* An adventure that works on the registers: exchange the room with
\* alternate room 0 (once, and twice in one action), with alternate room 2,
\* the counter with alternate counter 8, and subtract 2 from the counter
TableRegisters == Table(<<
    LoadAction(Vocab(2, 0), NoConds, <<Cmd(80, 0), 0>>),
    LoadAction(Vocab(2, 1), NoConds, <<Cmd(80, 80), 0>>),
    LoadAction(Vocab(3, 0), <<Cond(0, 2), 0, 0, 0, 0>>, <<Cmd(87, 0), 0>>),
    LoadAction(Vocab(3, 1), <<Cond(0, 2), Cond(0, 2), 0, 0, 0>>, <<Cmd(87, 87), 0>>),
    LoadAction(Vocab(4, 0), <<Cond(0, 8), 0, 0, 0, 0>>, <<Cmd(81, 0), 0>>),
    LoadAction(Vocab(4, 1), <<Cond(0, 8), Cond(0, 8), 0, 0, 0>>, <<Cmd(81, 81), 0>>),
    LoadAction(Vocab(5, 0), <<Cond(0, 2), 0, 0, 0, 0>>, <<Cmd(83, 0), 0>>) >>)

\* An adventure that works on the flags: set and clear flag 15 by number
\* and by NIGHT and DAY, flag 0 by number and by opcodes 67 and 68, and
\* flags 30 and 4 by number
TableFlags == Table(<<
    LoadAction(Vocab(2, 0), <<Cond(0, DARKBIT), 0, 0, 0, 0>>, <<Cmd(58, 0), 0>>),
    LoadAction(Vocab(2, 1), NoConds, <<Cmd(56, 0), 0>>),
    LoadAction(Vocab(3, 0), <<Cond(0, DARKBIT), 0, 0, 0, 0>>, <<Cmd(60, 0), 0>>),
    LoadAction(Vocab(3, 1), NoConds, <<Cmd(57, 0), 0>>),
    LoadAction(Vocab(4, 0), NoConds, <<Cmd(58, 0), 0>>),
    LoadAction(Vocab(4, 1), NoConds, <<Cmd(67, 0), 0>>),
    LoadAction(Vocab(5, 0), NoConds, <<Cmd(60, 0), 0>>),
    LoadAction(Vocab(5, 1), NoConds, <<Cmd(68, 0), 0>>),
    LoadAction(Vocab(6, 0), <<Cond(0, 30), 0, 0, 0, 0>>, <<Cmd(58, 0), 0>>),
    LoadAction(Vocab(6, 1), <<Cond(0, 30), 0, 0, 0, 0>>, <<Cmd(60, 0), 0>>),
    LoadAction(Vocab(6, 2), <<Cond(0, 4), 0, 0, 0, 0>>, <<Cmd(58, 0), 0>>) >>)

Tables == {TableCont, TableOrder, TableAuto, TableParams, TableItems, TableMoves,
           TableRegisters, TableFlags, TableMessages}

\* ------------------------------------------------------------------------
\* The session: RunGame
\* ------------------------------------------------------------------------
VARIABLES
    state,    \* the GameState
    disk,     \* the save file: whether it exists and its lines
    saved,    \* the persisted fields of the GameState the save file was written from
    out,      \* what the last step printed
    pc,       \* where RunGame is: "start", "auto", "display", "input",
              \* "command", "light"; or "quit", "exited", "panic"; before
              \* that "load", and "loaderror" when LoadGameData fails
    scan,     \* the index of the automatic pass
    input,    \* the line read from the player, classified
    turn,     \* the number of lines read so far
    trace,    \* the actions executed by the current dispatch pass, in order
    params,   \* the sub-commands of the last executed action
    lit,      \* the light source was carried at every UpdateLightSource so far
              \* and nothing else has written the light counter or flag 16
    trailer,  \* the checksum in the trailer of the adventure's data file
    chance,   \* the last value of rand.Intn(100) + 1, or 0 when the step drew none
    job,      \* a raw value or a text of the data file handed to the loader
    result    \* what the loader made of it

\* The variables of the session and those of the loader's decoders
session == <<state, disk, saved, out, pc, scan, input, turn, trace, params, lit,
             trailer, chance>>

data == <<job, result>>

vars == <<state, disk, saved, out, pc, scan, input, turn, trace, params, lit,
          trailer, chance, job, result>>

NoJob == [kind |-> "none", verb |-> 0, noun |-> 0, code |-> 0, parameter |-> 0,
          content |-> <<>>, conditions |-> <<>>, wordType |-> "none"]

NoResult == [done |-> FALSE, verb |-> 0, noun |-> 0, code |-> 0, parameter |-> 0,
             tokens |-> <<>>, err |-> FALSE, check |-> "none",
             first |-> FALSE, second |-> FALSE, number |-> 0, lines |-> <<>>]

NoFile == [exists |-> FALSE, lines |-> <<>>]

NoInput == [kind |-> "none", verb |-> 0, noun |-> 0, dir |-> 0, item |-> 0,
            roll |-> 0, file |-> NoFile, canCreate |-> TRUE, lookups |-> <<>>]

\* The process as the operators above see it, with nothing printed yet
Process(canCreate) ==
    [st |-> state, disk |-> disk, saved |-> saved, out |-> <<>>,
     status |-> "running", canCreate |-> canCreate, trace |-> trace, params |-> params]

\* The counters stay within the range the model explores
InBounds(s) ==
    /\ s.Counter >= -MaxCounter /\ s.Counter <= MaxCounter
    /\ \A m \in 0..8 : s.AltCounters[m] >= -MaxCounter
                       /\ s.AltCounters[m] <= MaxCounter + LightTime

\* The step leaves the process c and continues at next, unless the process
\* has exited or panicked
Continue(c, next) ==
    /\ InBounds(c.st)
    /\ state' = c.st
    /\ disk' = c.disk
    /\ saved' = c.saved
    /\ out' = c.out
    /\ trace' = c.trace
    /\ params' = c.params
    /\ pc' = IF c.status = "running" THEN next ELSE c.status

\* The step writes neither the light counter nor flag 16
SameLight ==
    /\ state'.AltCounters[8] = state.AltCounters[8]
    /\ BitSet(state'.BitFlags, LIGHTOUTBIT) = BitSet(state.BitFlags, LIGHTOUTBIT)

\* ------------------------------------------------------------------------
\* Vocabulary: a word is a sequence of characters
\* ------------------------------------------------------------------------
\* The verbs of the data file in their order, a synonym marked by *
VerbWords == <<
    <<"A", "U", "T">>, <<"G", "O">>, <<"*", "R", "U", "N">>,
    <<"G", "E", "T">>, <<"*", "T", "A", "K">>, <<"D", "R", "O">> >>

\* The nouns of the data file in their order, the last one not written in
\* capitals
NounWords == <<
    <<"A", "N", "Y">>, <<"N", "O", "R">>, <<"S", "O", "U">>,
    <<"L", "A", "M">>, <<"*", "L", "I", "G">>, <<"K", "e", "y">> >>

\* The quoted strings LoadGameData reads after the actions: verbs, then nouns
Vocabulary == VerbWords \o NounWords

\* The letters of a word
LowerChars == <<"a", "b", "c", "d", "e", "f", "g", "h", "i", "j", "k", "l", "m",
                "n", "o", "p", "q", "r", "s", "t", "u", "v", "w", "x", "y", "z">>

UpperChars == <<"A", "B", "C", "D", "E", "F", "G", "H", "I", "J", "K", "L", "M",
                "N", "O", "P", "Q", "R", "S", "T", "U", "V", "W", "X", "Y", "Z">>

\* strings.ToUpper on a word of ASCII characters
ToUpper(s) ==
    [k \in 1..Len(s) |->
        IF \E n \in 1..26 : LowerChars[n] = s[k]
        THEN UpperChars[CHOOSE n \in 1..26 : LowerChars[n] = s[k]]
        ELSE s[k]]

\* strings.EqualFold on words of ASCII characters: equal but for the case
\* of their letters
EqualFold(s, t) == ToUpper(s) = ToUpper(t)

\* strings.HasPrefix(s, prefix)
HasPrefix(s, prefix) == Len(prefix) <= Len(s) /\ SubSeq(s, 1, Len(prefix)) = prefix

\* The loop of LoadGameData over the vocabulary from its word i (counted
\* from 0): a word is a verb while fewer than (Header.NumWords + 1) / 2
\* verbs have been counted and it is not a synonym, and a noun otherwise
RECURSIVE LoadWordsFrom(_, _, _, _, _)
LoadWordsFrom(vocabulary, numWords, i, verbCount, words) ==
    IF i >= Len(vocabulary) THEN words
    ELSE LET wordText == vocabulary[i + 1]
             isSynonym == HasPrefix(wordText, <<"*">>)
             isVerb == verbCount < GoDiv(numWords + 1, 2) /\ ~isSynonym
             word == [Word |-> IF isSynonym THEN Tail(wordText) ELSE wordText,
                      IsSynonym |-> isSynonym,
                      Type |-> IF isVerb THEN "verb" ELSE "noun"]
         IN LoadWordsFrom(vocabulary, numWords, i + 1,
                          IF isVerb THEN verbCount + 1 ELSE verbCount,
                          Append(words, word))

\* state.Words of a data file, indexed from 0
LoadWords(vocabulary, numWords) ==
    LET ws == LoadWordsFrom(vocabulary, numWords, 0, 0, <<>>)
    IN [i \in 0..(Len(ws) - 1) |-> ws[i + 1]]

\* state.Words of the data file with the short word list
Words == LoadWords(Vocabulary, NumWords)

\* directionMap of GetWordNumber
DirectionMap(word) ==
    CASE word \in {<<"N", "O", "R", "T", "H">>, <<"N">>} -> 1
      [] word \in {<<"S", "O", "U", "T", "H">>, <<"S">>} -> 2
      [] word \in {<<"E", "A", "S", "T">>, <<"E">>} -> 3
      [] word \in {<<"W", "E", "S", "T">>, <<"W">>} -> 4
      [] word \in {<<"U", "P">>, <<"U">>} -> 5
      [] word \in {<<"D", "O", "W", "N">>, <<"D">>} -> 6
      [] OTHER -> 0

\* The least element of a non-empty set of numbers
Least(S) == CHOOSE i \in S : \A k \in S : i <= k

\* The inner loop of the synonym searches looks through the words before
\* i that are not synonyms and have the type asked for
BasesBefore(words, i, wordType) ==
    {j \in 0..(i - 1) : ~words[j].IsSynonym /\ words[j].Type = wordType}

\* GetWordNumber: the word cut to WordLength characters is looked up as a
\* direction (nouns only), then among the words of the type that are not
\* synonyms, exactly and as a prefix, then among the synonyms of the type,
\* exactly and as a prefix; the exact searches ignore the case of both
\* words, the prefix searches capitalise the listed word only; the first
\* match in list order decides and a synonym gives the nearest word before
\* it that is not a synonym and has the type; 0 when nothing matches.
\* number is the value returned and how the return statement reached
WordMatch(words, word, wordType) ==
    LET w == IF Len(word) > WordLength THEN SubSeq(word, 1, WordLength) ELSE word
        all == DOMAIN words
        exact == {i \in all : ~words[i].IsSynonym /\ words[i].Type = wordType
                                /\ EqualFold(words[i].Word, w)}
        prefix == {i \in all : ~words[i].IsSynonym /\ words[i].Type = wordType
                                 /\ HasPrefix(ToUpper(words[i].Word), w)}
        synExact == {i \in all : words[i].IsSynonym /\ words[i].Type = wordType
                                   /\ EqualFold(words[i].Word, w)
                                   /\ BasesBefore(words, i, wordType) # {}}
        synPrefix == {i \in all : words[i].IsSynonym /\ words[i].Type = wordType
                                    /\ HasPrefix(ToUpper(words[i].Word), w)
                                    /\ BasesBefore(words, i, wordType) # {}}
        last(S) == CHOOSE j \in S : \A k \in S : k <= j
    IN IF wordType = "noun" /\ DirectionMap(w) # 0
       THEN [number |-> DirectionMap(w), how |-> "direction"]
       ELSE IF exact # {} THEN [number |-> Least(exact), how |-> "exact"]
       ELSE IF prefix # {} THEN [number |-> Least(prefix), how |-> "prefix"]
       ELSE IF synExact # {}
       THEN [number |-> last(BasesBefore(words, Least(synExact), wordType)),
             how |-> "synonym exact"]
       ELSE IF synPrefix # {}
       THEN [number |-> last(BasesBefore(words, Least(synPrefix), wordType)),
             how |-> "synonym prefix"]
       ELSE [number |-> 0, how |-> "none"]

GetWordNumber(words, word, wordType) == WordMatch(words, word, wordType).number

\* The line GetWordNumber prints under Debug before it returns: none when
\* the word is a direction
GetWordNumberLines(words, word, wordType) ==
    LET m == WordMatch(words, word, wordType)
    IN CASE m.how = "direction" -> <<>>
         [] m.how = "exact" ->
              <<[text |-> "[DEBUG] Exact word match", arg |-> m.number]>>
         [] m.how = "prefix" ->
              <<[text |-> "[DEBUG] Prefix word match", arg |-> m.number]>>
         [] m.how = "synonym exact" ->
              <<[text |-> "[DEBUG] Synonym exact match", arg |-> m.number]>>
         [] m.how = "synonym prefix" ->
              <<[text |-> "[DEBUG] Synonym prefix match", arg |-> m.number]>>
         [] OTHER -> <<[text |-> "[DEBUG] No match for word", arg |-> 0]>>

\* ParseCommand on the words of a line: the first word as a verb, the second
\* as a noun; for verb 1 a second word that names a direction gives the
\* noun, whatever the lookup has found
ParseCommand(words, line) ==
    LET verb == IF Len(line) > 0 THEN GetWordNumber(words, line[1], "verb") ELSE 0
        mapped == verb = 1 /\ Len(line) > 1 /\ DirectionMap(line[2]) # 0
        noun == IF mapped THEN DirectionMap(line[2])
                ELSE IF Len(line) > 1 THEN GetWordNumber(words, line[2], "noun")
                ELSE 0
    IN [verb |-> verb, noun |-> noun,
        lines |-> (IF Len(line) > 0 THEN GetWordNumberLines(words, line[1], "verb")
                   ELSE <<>>)
                  \o (IF Len(line) > 1 THEN GetWordNumberLines(words, line[2], "noun")
                      ELSE <<>>)
                  \o (IF mapped
                      THEN <<[text |-> "[DEBUG] GO direction mapped", arg |-> noun]>>
                      ELSE <<>>)]

\* ------------------------------------------------------------------------
\* The words and the items of the adventure the sessions play
\* ------------------------------------------------------------------------
\* The quoted strings of its vocabulary: GO is word 1, GET word 10 with the
\* synonym TAK, DRO word 18, and the nouns follow the verbs
GameVocabulary == <<
    <<"A", "U", "T">>, <<"G", "O">>, <<"C", "L", "I">>, <<"J", "U", "M">>,
    <<"A", "T">>, <<"C", "H", "O">>, <<"R", "E", "A">>, <<"U", "N", "L">>,
    <<"R", "U", "B">>, <<"S", "W", "I">>, <<"G", "E", "T">>,
    <<"*", "T", "A", "K">>, <<"W", "A", "V">>, <<"P", "O", "U">>,
    <<"F", "I", "N">>, <<"C", "U", "T">>, <<"S", "A", "Y">>, <<"D", "I", "G">>,
    <<"D", "R", "O">>,
    <<"A", "N", "Y">>, <<"N", "O", "R">>, <<"S", "O", "U">>, <<"E", "A", "S">>,
    <<"W", "E", "S">>, <<"U", "P">>, <<"D", "O", "W">>, <<"K", "E", "Y">>,
    <<"L", "A", "M">>, <<"*", "L", "I", "G">>, <<"B", "O", "O">>,
    <<"C", "R", "O">> >>

\* state.Words of the adventure the sessions play
GameWords == LoadWords(GameVocabulary, GameNumWords)

\* The quoted descriptions of the items 1..NumItems in the data file; an
\* item the list does not reach has the empty description
ItemTexts == <<
    <<"K", "e", "y", "/", "K", "E", "Y", "/">>,
    <<"O", "l", "d", " ", "b", "o", "o", "k">>,
    <<"*", "G", "o", "l", "d", " ", "c", "r", "o", "w", "n", "*", "/", "C", "R", "O", "/">>,
    <<"M", "u", "d", "d", "y", " ", "b", "o", "o", "t", "s">>,
    <<"S", "i", "g", "n">>,
    <<"R", "u", "g", "/", "R", "U", "G">>,
    <<>>,
    <<"A", "x", "e">>,
    <<"L", "i", "t", " ", "l", "a", "m", "p", "/", "L", "A", "M", "/">> >>

\* strings.Split(s, sep) for a separator of one character
RECURSIVE Split(_, _)
Split(s, sep) ==
    IF \A k \in 1..Len(s) : s[k] # sep THEN <<s>>
    ELSE LET k == Least({j \in 1..Len(s) : s[j] = sep})
         IN <<SubSeq(s, 1, k - 1)>> \o Split(SubSeq(s, k + 1, Len(s)), sep)

\* strings.Fields(s) of a text whose only white space is the blank
Fields(s) == SelectSeq(Split(s, " "), LAMBDA word : Len(word) > 0)

\* strings.Contains(s, substr)
Contains(s, substr) ==
    \E k \in 0..(Len(s) - Len(substr)) : SubSeq(s, k + 1, k + Len(substr)) = substr

\* Items[i] as LoadGameData stores it: the description is the text before
\* the first slash, AutoGet the text between the first two slashes when
\* there are two
Item(i) ==
    LET text == IF i \in 1..Len(ItemTexts) THEN ItemTexts[i] ELSE <<>>
        parts == Split(text, "/")
    IN [Description |-> IF Len(parts) > 1 THEN parts[1] ELSE text,
        AutoGet |-> IF Len(parts) > 2 THEN parts[2] ELSE <<>>]

\* The name FindItemByName compares with: AutoGet, or the last word of the
\* description, in capitals
ItemName(i) ==
    LET item == Item(i)
        parts == Fields(item.Description)
    IN ToUpper(IF item.AutoGet # <<>> THEN item.AutoGet
               ELSE IF Len(parts) > 0 THEN parts[Len(parts)]
               ELSE item.Description)

\* FindItemByName: the name in capitals cut to WordLength characters is
\* compared with the items 1..NumItems in their order; the first item
\* whose name holds it is found, or for MUD the first whose description
\* holds it; item is 0 when there is none, and lines is what Debug prints
FindItemByName(typed) ==
    LET upper == ToUpper(typed)
        name == IF Len(upper) > WordLength THEN SubSeq(upper, 1, WordLength) ELSE upper
        byName(i) == HasPrefix(ItemName(i), name) \/ Contains(ItemName(i), name)
        mud == <<"M", "U", "D">>
        byMud(i) == name = mud /\ Contains(ToUpper(Item(i).Description), mud)
        found == {i \in 1..NumItems : byName(i) \/ byMud(i)}
    IN IF found = {}
       THEN [item |-> 0, lines |-> <<[text |-> "[DEBUG] No item match for", arg |-> 0]>>]
       ELSE LET i == Least(found)
            IN [item |-> i,
                lines |-> IF byName(i)
                          THEN <<[text |-> "[DEBUG] Found item match", arg |-> i]>>
                          ELSE <<[text |-> "[DEBUG] Found mud special case", arg |-> i]>>]

\* The six directions by their names and by their letters
DirectionNames == <<
    <<"N", "O", "R", "T", "H">>, <<"S", "O", "U", "T", "H">>, <<"E", "A", "S", "T">>,
    <<"W", "E", "S", "T">>, <<"U", "P">>, <<"D", "O", "W", "N">> >>

DirectionLetters == <<"N", "S", "E", "W", "U", "D">>

\* The first map directionWords of ProcessCommand holds the names only: the
\* number of the direction 0..5, or -1
DirectionWord(word) ==
    IF \E d \in 1..6 : DirectionNames[d] = word
    THEN (CHOOSE d \in 1..6 : DirectionNames[d] = word) - 1
    ELSE -1

\* The branch of RunGame and ProcessCommand a typed line takes under the
\* words vocabulary of the adventure, the line given as its words: QUIT is compared with the whole line, every other
\* command with the words in capitals, a first word of one letter that is
\* a direction replaced by the name of the direction.  verb and noun are
\* the result of ParseCommand, dir a direction 0..5, item the result of
\* FindItemByName and lookups the lines the lookups print under Debug
Classify(vocabulary, typed) ==
    LET upper == [k \in 1..Len(typed) |-> ToUpper(typed[k])]
        short == Len(upper) > 0 /\ Len(upper[1]) = 1 /\ DirectionMap(upper[1]) # 0
        words == IF short
                 THEN [upper EXCEPT ![1] = DirectionNames[DirectionMap(upper[1])]]
                 ELSE upper
        first == IF Len(words) > 0 THEN words[1] ELSE <<>>
        second == IF Len(words) > 1 THEN words[2] ELSE <<>>
        takes == Len(words) > 1
                 /\ first \in {<<"G", "E", "T">>, <<"T", "A", "K", "E">>}
        drops == Len(words) > 1 /\ first = <<"D", "R", "O", "P">>
        found == IF takes \/ drops THEN FindItemByName(second)
                 ELSE [item |-> 0, lines |-> <<>>]
        parsed == ParseCommand(vocabulary, words)
    IN CASE Len(upper) = 1 /\ upper[1] = <<"Q", "U", "I", "T">> ->
              [NoInput EXCEPT !.kind = "quit"]
         [] Len(words) = 0 -> [NoInput EXCEPT !.kind = "empty"]
         [] first \in {<<"I">>, <<"I", "N", "V">>,
                       <<"I", "N", "V", "E", "N", "T", "O", "R", "Y">>} ->
              [NoInput EXCEPT !.kind = "inventory"]
         [] first = <<"L", "O", "O", "K">> -> [NoInput EXCEPT !.kind = "look"]
         [] first = <<"S", "A", "V", "E">> -> [NoInput EXCEPT !.kind = "save"]
         [] first = <<"L", "O", "A", "D">>
            \/ (first = <<"R", "E", "S", "T", "O", "R", "E">>
                /\ second = <<"G", "A", "M", "E">>) ->
              [NoInput EXCEPT !.kind = "load"]
         [] first = <<"S", "C", "O", "R", "E">> -> [NoInput EXCEPT !.kind = "score"]
         [] first = <<"D", "E", "B", "U", "G">> -> [NoInput EXCEPT !.kind = "debug"]
         [] first = <<"H", "E", "L", "P">> -> [NoInput EXCEPT !.kind = "help"]
         [] DirectionWord(first) >= 0 ->
              [NoInput EXCEPT !.kind = "direction", !.dir = DirectionWord(first)]
         [] first = <<"G", "O">> /\ Len(words) > 1 /\ DirectionMap(second) # 0 ->
              [NoInput EXCEPT !.kind = "godirection", !.dir = DirectionMap(second) - 1]
         [] takes /\ found.item > 0 ->
              [NoInput EXCEPT !.kind = "getname", !.item = found.item,
                              !.lookups = found.lines]
         [] drops /\ found.item > 0 ->
              [NoInput EXCEPT !.kind = "dropname", !.item = found.item,
                              !.lookups = found.lines]
         [] OTHER ->
              [NoInput EXCEPT !.kind = "words", !.verb = parsed.verb,
                              !.noun = parsed.noun,
                              !.lookups = found.lines \o parsed.lines]

\* ------------------------------------------------------------------------
\* GameState
\* ------------------------------------------------------------------------
\* state.Header of the adventure whose action table is actions
Header(actions) ==
    [NumItems |-> NumItems, NumActions |-> Cardinality(DOMAIN actions) - 1,
     NumWords |-> GameNumWords, NumRooms |-> NumRooms, MaxCarry |-> MaxCarry,
     PlayerRoom |-> PlayerRoom, Treasures |-> Treasures, WordLength |-> WordLength,
     LightTime |-> LightTime, NumMessages |-> HeaderNumMessages(actions),
     TreasureRoom |-> TreasureRoom, AdventureVersion |-> AdventureVersion,
     AdventureNumber |-> AdventureNumber]

\* state.Rooms: the exits of every room; its description is known by the
\* number of the room
Rooms == [r \in 0..NumRooms |-> [Exits |-> Exits[r], Description |-> r]]

\* state.Items: where the data file puts every item; its description is
\* known by the number of the item
Items == [i \in 0..NumItems |->
            [Location |-> OriginalLocation[i], OriginalLocation |-> OriginalLocation[i]]]

\* state.Messages: a message is known by its number
Messages(actions) == [n \in 0..HeaderNumMessages(actions) |-> n]

InitialGameStateNoLight(actions) ==
    [Header |-> Header(actions),
     Rooms |-> Rooms,
     Items |-> Items,
     Actions |-> actions,
     Words |-> GameWords,
     Messages |-> Messages(actions),
     CurrentRoom |-> PlayerRoom,
     ItemLocations |-> OriginalLocation,
     BitFlags |-> 0,
     Counter |-> 0,
     AltCounters |-> [m \in 0..8 |-> 0],
     AltRooms |-> [c \in 0..5 |-> 0],
     ContinueFlag |-> FALSE,
     DisplayedRoom |-> FALSE,
     CurrentAction |-> 0,
     Debug |-> FALSE]

\* GameState after a successful LoadGameData of an adventure whose action
\* table is actions: header, rooms, items, actions, words and messages as
\* read from the data file, the player in the start room, the items where
\* the file puts them and the light counter full
InitialGameState(actions) ==
    [Header |-> Header(actions),
     Rooms |-> Rooms,
     Items |-> Items,
     Actions |-> actions,
     Words |-> GameWords,
     Messages |-> Messages(actions),
     CurrentRoom |-> PlayerRoom,
     ItemLocations |-> OriginalLocation,
     BitFlags |-> 0,
     Counter |-> 0,
     AltCounters |-> [m \in 0..8 |-> IF m = 8 THEN LightTime ELSE 0],
     AltRooms |-> [c \in 0..5 |-> 0],
     ContinueFlag |-> FALSE,
     DisplayedRoom |-> FALSE,
     CurrentAction |-> 0,
     Debug |-> FALSE]

\* GameState as LoadGameData has built it when it reaches the trailer: the
\* player's room and the light counter are not assigned yet
ParsedGameState(actions) ==
    [InitialGameState(actions) EXCEPT !.CurrentRoom = 0, !.AltCounters[8] = 0]

\* The checksums the trailer of a data file with these actions may hold
Trailers(actions) ==
    LET expected == ExpectedChecksum(Cardinality(DOMAIN actions) - 1, NumItems,
                                     AdventureVersion)
    IN {0, expected - 1, expected, expected + 1, 2 * expected}

\* main has called LoadGameData, which has read the data file up to the
\* checksum of the trailer
Init ==
    /\ lit = TRUE
    /\ state \in {ParsedGameState(t) : t \in Tables}
    /\ trailer \in Trailers(state.Actions)
    /\ chance = 0
    /\ job = NoJob
    /\ result = NoResult
    /\ disk = NoFile
    /\ saved = Persisted(InitialGameState(state.Actions))
    /\ out = <<>>
    /\ pc = "load"
    /\ scan = 0
    /\ input = NoInput
    /\ turn = 0
    /\ trace = <<>>
    /\ params = <<>>

\* DumpVocabulary: three lines of heading, a line for every word whose
\* index is not above Header.NumWords, and a closing line
DumpVocabulary(words, numWords) ==
    <<[text |-> "--- Vocabulary Dump ---", arg |-> 0],
      [text |-> "Index | Type | Word", arg |-> 0],
      [text |-> "------|------|------", arg |-> 0]>>
    \o [k \in 1..Cardinality({i \in DOMAIN words : i <= numWords}) |->
           [text |-> "word", arg |-> k - 1]]
    \o <<[text |-> "----------------------", arg |-> 0]>>

\* What main prints before the game loop: two lines of title, message 1
\* when the adventure has one, and for every -debug among the arguments
\* the line of the debug mode and the vocabulary
RECURSIVE DebugArgLines(_, _)
DebugArgLines(s, n) ==
    IF n = 0 THEN <<>>
    ELSE <<[text |-> "Debug mode enabled", arg |-> 0]>>
         \o DumpVocabulary(s.Words, s.Header.NumWords) \o DebugArgLines(s, n - 1)

Banner(s, debugArgs) ==
    <<[text |-> "Scott Adams Adventure Interpreter", arg |-> 0],
      [text |-> "Adventure: Version", arg |-> s.Header.AdventureVersion]>>
    \o (IF Cardinality(DOMAIN s.Messages) > 1
        THEN <<[text |-> "message", arg |-> s.Messages[1]]>> ELSE <<>>)
    \o DebugArgLines(s, debugArgs)

\* The end of LoadGameData and main after it: the checksum is verified,
\* then the player's room and the light counter are set, main prints the
\* title and sets Debug when -debug is among the arguments; on a mismatch
\* LoadGameData returns an error, main prints it and exits
LoadData ==
    /\ pc = "load"
    /\ IF ChecksumOk(trailer, NumActions(state), state.Header.NumItems,
                     state.Header.AdventureVersion)
       THEN \E debugArgs \in 0..MaxDebugArgs :
              /\ state' = [InitialGameState(state.Actions)
                             EXCEPT !.Debug = debugArgs > 0]
              /\ out' = Banner(state, debugArgs)
              /\ pc' = "start"
       ELSE /\ pc' = "loaderror"
            /\ out' = <<[text |-> "Error loading game data:", arg |-> 0]>>
            /\ UNCHANGED state
    /\ UNCHANGED <<disk, saved, scan, input, turn, trace, params, lit,
                   trailer, chance, data>>

\* rand.Intn(100) + 1 is drawn only for a verb-0 action with a noun; 0
\* stands for no draw.  Of the values 1..100 the model draws the least, the
\* greatest and those next to the action's noun
Chances(action) ==
    IF action.Verb = 0 /\ action.Noun > 0
    THEN {r \in 1..100 : r \in {1, action.Noun - 1, action.Noun, action.Noun + 1, 100}}
    ELSE {0}

PercentGateSkipsAtEqual(action, r) == action.Noun > 0 /\ r >= action.Noun

\* The percent gate of ProcessAutomaticActions skips the action
PercentGateSkips(action, r) == action.Noun > 0 /\ r > action.Noun

AutoSkipsGateOnly(action, r) == PercentGateSkips(action, r)

\* ProcessAutomaticActions passes over the action: its verb is not 0 or the
\* percent gate skips it
AutoSkips(action, r) == action.Verb # 0 \/ PercentGateSkips(action, r)

\* os.Create is called only by an action that holds opcode 71
CreateOutcomes(action) ==
    IF \E i \in 0..1 : 71 \in {GoDiv(action.Commands[i], 150), GoMod(action.Commands[i], 150)}
    THEN BOOLEAN ELSE {TRUE}

\* ProcessAutomaticActions up to the first iteration of the inner loop: the
\* flag is set, tested by the outer loop and cleared
AutoBegin ==
    /\ pc = "start"
    /\ state' = [state EXCEPT !.ContinueFlag = FALSE]
    /\ scan' = 0
    /\ trace' = <<>>
    /\ out' = <<>>
    /\ pc' = "auto"
    /\ chance' = 0
    /\ UNCHANGED <<disk, saved, input, turn, params, lit, trailer, data>>

\* One iteration of the inner loop of ProcessAutomaticActions at index scan;
\* r is the value of rand.Intn(100) + 1.  When the executed action has
\* set ContinueFlag the inner loop is left and the outer loop clears the flag
\* and starts again at index 0; at the end of the table the pass ends.
AutoStep ==
    /\ pc = "auto"
    /\ IF scan > NumActions(state)
       THEN /\ pc' = "display"
            /\ out' = <<>>
            /\ chance' = 0
            /\ UNCHANGED <<state, disk, saved, scan, input, turn, trace, params, lit,
                           trailer, data>>
       ELSE LET action == state.Actions[scan]
            IN \E r \in Chances(action), canCreate \in CreateOutcomes(action) :
                 LET c == Process(canCreate)
                     gated == AutoSkips(action, r)
                     check == IF gated THEN "fail" ELSE CheckConditions(state, scan)
                     c1 == IF check = "panic" THEN Panic(c)
                           ELSE IF check = "pass" THEN ExecuteCommands(c, scan)
                           ELSE IF gated THEN c
                           ELSE Checked(c, scan)
                     restart == check = "pass" /\ c1.st.ContinueFlag
                     c2 == IF restart /\ c1.status = "running"
                           THEN [c1 EXCEPT !.st.ContinueFlag = FALSE] ELSE c1
                 IN /\ Continue(c2, "auto")
                    /\ lit' = (lit /\ SameLight)
                    /\ scan' = IF restart THEN 0 ELSE scan + 1
                    /\ chance' = r
                    /\ UNCHANGED <<input, turn, trailer, data>>

\* RunGame shows the location when it has not been shown this turn
Display ==
    /\ pc = "display"
    /\ LET c == Process(TRUE)
           c1 == IF state.DisplayedRoom THEN c
                 ELSE LET d == DisplayCurrentLocation(c)
                      IN IF d.status = "running"
                         THEN [d EXCEPT !.st.DisplayedRoom = TRUE] ELSE d
       IN Continue(c1, "input")
    /\ UNCHANGED <<scan, input, turn, lit, trailer, chance, data>>

\* The files a LOAD may open: the save file itself, no file, the file cut
\* after k lines, the file of another adventure, a file with a line that is
\* not a number, a file whose room line holds a number that is not a room
TruncationPoints == {0, 1, 2, 4, 11, 19}

LoadFiles ==
    LET base == IF disk.exists THEN disk.lines ELSE SaveLines(state)
        n == Len(base)
    IN {disk, NoFile}
       \cup {[exists |-> TRUE, lines |-> SubSeq(base, 1, k)] :
                k \in (TruncationPoints \cup {n - 1})}
       \cup {[exists |-> TRUE, lines |-> [base EXCEPT ![1] = Itoa(AdventureNumber + 1)]],
             [exists |-> TRUE, lines |-> [base EXCEPT ![3] = <<"x">>]],
             [exists |-> TRUE, lines |-> [base EXCEPT ![2] = Itoa(NumRooms + 1)]]}

\* The verbs the typed lines name
Verbs == (0..MaxVerb) \cup {10, 18}

\* A word the player types for the verb: the first letters of GO, GET and
\* DRO, which the vocabulary completes, and the listed word otherwise
VerbWord(verb) ==
    CASE verb = 1 -> <<"G">>
      [] verb = 10 -> <<"G", "E">>
      [] verb = 18 -> <<"D", "R">>
      [] OTHER -> GameVocabulary[verb + 1]

\* The lines the player types, each as its words: a verb alone and a verb
\* with the letter of a direction, the commands ProcessCommand knows by
\* their text, lines in small letters, and lines with a word that is not
\* listed, with three words, with a noun, with a synonym and with the
\* first letters of a noun
TypedLines ==
    {<<VerbWord(v)>> : v \in Verbs}
    \cup {<<VerbWord(v), <<DirectionLetters[n]>>>> : v \in Verbs, n \in 1..MaxNoun}
    \cup { <<>>,
           << <<"Q", "U", "I", "T">> >>,
           << <<"q", "u", "i", "t">> >>,
           << <<"Q", "U", "I", "T">>, <<"N", "O", "W">> >>,
           << <<"I">> >>,
           << <<"L", "O", "O", "K">> >>,
           << <<"S", "A", "V", "E">> >>,
           << <<"L", "O", "A", "D">> >>,
           << <<"R", "E", "S", "T", "O", "R", "E">>, <<"G", "A", "M", "E">> >>,
           << <<"S", "C", "O", "R", "E">> >>,
           << <<"D", "E", "B", "U", "G">> >>,
           << <<"H", "E", "L", "P">> >>,
           << <<"N">> >>,
           << <<"S", "O", "U", "T", "H">> >>,
           << <<"G", "O">>, <<"N">> >>,
           << <<"G", "O">>, <<"S", "O", "U", "T", "H">> >>,
           << <<"G">>, <<"N", "O", "R", "T", "H">> >>,
           << <<"G", "E", "T">>, <<"K", "E", "Y">> >>,
           << <<"g", "e", "t">>, <<"k", "e", "y">> >>,
           << <<"T", "A", "K", "E">>, <<"L", "A", "M", "P">> >>,
           << <<"D", "R", "O", "P">>, <<"K", "E", "Y">> >>,
           << <<"D", "R", "O", "P">>, <<"L", "A", "M", "P">> >>,
           << <<"G", "E", "T">>, <<"M", "U", "D">> >>,
           << <<"G", "E", "T">>, <<"X", "Y", "Z">> >>,
           << <<"G", "E", "T">>, <<"S">> >>,
           << <<"D", "R", "O", "P">>, <<"X", "Y", "Z">> >>,
           << <<"X", "Y", "Z">> >>,
           << <<"X", "Y", "Z">>, <<"X", "Y", "Z">>, <<"X", "Y", "Z">> >>,
           << <<"C", "L", "I">>, <<"K", "E", "Y">> >>,
           << <<"C", "L", "I">>, <<"L", "I", "G">> >>,
           << <<"C", "L", "I">>, <<"L">> >>,
           << <<"C", "L", "I">>, <<"L", "I">> >>,
           << <<"G", "E">>, <<"L", "A", "M", "P">> >> }

\* rand.Intn(100) of MovePlayer is drawn only in the dark: the values on
\* both sides of the limit
Rolls == IF IsDark(state) THEN {24, 25} ELSE {0}

\* The typed lines as RunGame and ProcessCommand classify them under the
\* words the data file holds
ClassifiedLines == {Classify(GameWords, line) : line \in TypedLines}

\* A typed line whose verb has an action that holds opcode 71 meets both
\* outcomes of os.Create, as SAVE does
VerbCreates(verb) ==
    \E i \in 0..NumActions(state) :
        state.Actions[i].Verb = verb /\ CreateOutcomes(state.Actions[i]) = BOOLEAN

\* The lines the player may type with what each meets outside the
\* GameState: the draw of MovePlayer, the file a LOAD opens and the outcome
\* of os.Create
Inputs ==
    UNION {{[in EXCEPT !.roll = r, !.file = f, !.canCreate = b] :
               r \in (IF in.kind \in {"direction", "godirection", "words"}
                      THEN Rolls ELSE {0}),
               f \in (IF in.kind = "load" THEN LoadFiles ELSE {NoFile}),
               b \in (IF in.kind = "save" \/ (in.kind = "words" /\ VerbCreates(in.verb))
                      THEN BOOLEAN ELSE {TRUE})} :
           in \in (IF state.Words = GameWords THEN ClassifiedLines
                   ELSE {Classify(state.Words, line) : line \in TypedLines})}

\* RunGame prints the prompt, reads a line, clears DisplayedRoom and on
\* QUIT prints its last line and leaves the loop
ReadInput ==
    /\ pc = "input"
    /\ turn < MaxTurns
    /\ \E in \in Inputs :
         /\ input' = in
         /\ pc' = IF in.kind = "quit" THEN "quit" ELSE "command"
         /\ out' = <<[text |-> "> ", arg |-> 0]>>
                   \o (IF in.kind = "quit"
                       THEN <<[text |-> "Thanks for playing!", arg |-> 0]>>
                       ELSE <<>>)
    /\ state' = [state EXCEPT !.DisplayedRoom = FALSE]
    /\ turn' = turn + 1
    /\ trace' = <<>>
    /\ UNCHANGED <<disk, saved, scan, params, lit, trailer, chance, data>>

\* ProcessCommand on the line read
Command ==
    /\ pc = "command"
    /\ Continue(ProcessCommand(Process(input.canCreate), input), "light")
    /\ lit' = (lit /\ SameLight)
    /\ UNCHANGED <<scan, input, turn, trailer, chance, data>>

LightThenDisplay ==
    /\ pc = "light"
    /\ Continue([UpdateLightSource(Process(TRUE)) EXCEPT !.trace = <<>>, !.params = <<>>],
                "display")
    /\ lit' = (lit /\ state.ItemLocations[LIGHT_SOURCE] = CARRIED)
    /\ input' = NoInput
    /\ UNCHANGED <<scan, turn, trailer, chance, data>>

\* UpdateLightSource, after which RunGame starts its next iteration; the
\* line read and the record of the dispatch are dropped
Light ==
    /\ pc = "light"
    /\ Continue([UpdateLightSource(Process(TRUE)) EXCEPT !.trace = <<>>, !.params = <<>>],
                "start")
    /\ lit' = (lit /\ state.ItemLocations[LIGHT_SOURCE] = CARRIED)
    /\ input' = NoInput
    /\ UNCHANGED <<scan, turn, trailer, chance, data>>

Next == LoadData \/ AutoBegin \/ AutoStep \/ Display \/ ReadInput \/ Command \/ Light

Spec == Init /\ [][Next]_vars

\* A session of the adventure whose table is TableAuto
InitAuto == Init /\ state.Actions = TableAuto

\* The process runs: a step of the automatic pass that can be taken is taken
FairSpec == InitAuto /\ [][Next]_vars /\ WF_vars(AutoBegin) /\ WF_vars(AutoStep)

\* ------------------------------------------------------------------------
\* The decoders of LoadGameData and CheckConditions applied to the raw
\* values of a data file
\* ------------------------------------------------------------------------
\* The characters of a data file are bytes: the quote (34), the slash (47),
\* the line feed (10), the blank (32), the form feed (12) and one other
\* character (97)
TextChars == {34, 47, 10, 32, 12, 97}

\* char == '\n' || char == '\r'
IsLineEnd(char) == char \in {10, 13}

\* unicode.IsSpace(rune(char)) of a byte: tab, line feed, vertical tab,
\* form feed, carriage return, blank, U+0085 and U+00A0
IsSpace(char) == char \in {9, 10, 11, 12, 13, 32, 133, 160}

RECURSIVE SkipToEndOfLine(_, _)
SkipToEndOfText(content, i) == Len(content)

\* The comment loop of tokenizeGameData: from the first slash at i to the
\* last character before the end of the line
SkipToEndOfLine(content, i) ==
    IF i + 1 <= Len(content) /\ ~IsLineEnd(content[i + 1])
    THEN SkipToEndOfLine(content, i + 1)
    ELSE i

\* tokens with the partial token appended when there is one
Flush(tokens, currentToken) ==
    IF Len(currentToken) > 0 THEN Append(tokens, currentToken) ELSE tokens

\* The loop of tokenizeGameData from the character at i (counted from 1)
\* and what it returns at the end of the text
RECURSIVE TokenizeFrom(_, _, _, _, _)
TokenizeFrom(content, i, tokens, currentToken, inQuotes) ==
    IF i > Len(content)
    THEN IF inQuotes THEN [tokens |-> <<>>, err |-> TRUE]
         ELSE [tokens |-> Flush(tokens, currentToken), err |-> FALSE]
    ELSE LET char == content[i]
         IN IF char = 34
            THEN IF inQuotes
                 THEN TokenizeFrom(content, i + 1,
                                   Append(tokens, Append(currentToken, char)), <<>>, FALSE)
                 ELSE TokenizeFrom(content, i + 1,
                                   Flush(tokens, currentToken), <<char>>, TRUE)
            ELSE IF inQuotes
            THEN TokenizeFrom(content, i + 1, tokens, Append(currentToken, char), TRUE)
            ELSE IF IsLineEnd(char)
            THEN TokenizeFrom(content, i + 1, Flush(tokens, currentToken), <<>>, FALSE)
            ELSE IF char = 47
            THEN IF i + 1 <= Len(content) /\ content[i + 1] = 47
                 THEN TokenizeFrom(content, SkipToEndOfLine(content, i) + 1,
                                   tokens, currentToken, FALSE)
                 ELSE TokenizeFrom(content, i + 1, tokens,
                                   Append(currentToken, char), FALSE)
            ELSE IF ~IsSpace(char)
            THEN TokenizeFrom(content, i + 1, tokens, Append(currentToken, char), FALSE)
            ELSE TokenizeFrom(content, i + 1, Flush(tokens, currentToken), <<>>, FALSE)

tokenizeGameData(content) == TokenizeFrom(content, 1, <<>>, <<>>, FALSE)

\* The texts of at most MaxText characters
Texts == UNION {[1..n -> TextChars] : n \in 0..MaxText}

\* The words given to GetWordNumber: verbs, nouns and synonyms of the list,
\* a word longer than WordLength, first letters, a direction, a word not
\* listed, and words in small letters
TypedWords == {
    <<"K">>, <<"g", "e", "t">>, <<"k", "e", "y">>, <<"k">>,
    <<"G", "E", "T">>, <<"T", "A", "K">>, <<"R", "U", "N">>, <<"G", "O">>,
    <<"L", "A", "M">>, <<"L", "I", "G">>, <<"K", "E", "Y">>, <<"D", "R", "O">>,
    <<"G", "E", "T", "S">>, <<"T", "A", "K", "E">>, <<"G">>, <<"L">>, <<"N">>,
    <<"X", "Y", "Z">> }

\* The raw conditions a slot of an action may hold: empty, a parameter, a
\* test of the room, of an item, of an item the adventure does not have,
\* and a negative number
SlotValues == {0, Cond(0, 5), Cond(4, PlayerRoom), Cond(1, 1), Cond(1, NumItems + 1), -1}

\* The first member of each pair of opposite condition codes
PairCodes == {1, 2, 3, 4, 8, 10, 13, 15, 17}

\* The code that tests the opposite of code
NegationOf(code) ==
    CASE code = 1 -> 6 [] code = 2 -> 5 [] code = 3 -> 12 [] code = 4 -> 7
      [] code = 8 -> 9 [] code = 10 -> 11 [] code = 13 -> 14 [] code = 15 -> 16
      [] code = 17 -> 18

\* Game states the conditions are evaluated in: the player in room 1 or 2,
\* item 1 destroyed, in room 1, in room 2 or carried, flag 1 clear or set,
\* the counter 0, 1 or 2
GameStates ==
    {[InitialGameState(TableCont) EXCEPT !.CurrentRoom = r, !.ItemLocations[1] = l,
                                         !.BitFlags = f, !.Counter = n] :
        r \in {1, 2}, l \in {DESTROYED, 1, 2, CARRIED}, f \in {0, 2}, n \in 0..2}

\* The game state a job is run in; for a job of five conditions it holds
\* the action made of them at index 0
JobStates(j) ==
    IF j.kind = "pair" THEN GameStates
    ELSE IF j.kind = "conditions"
    THEN {[g EXCEPT !.Actions = Table(<<LoadAction(0, j.conditions, <<0, 0>>)>>)] :
            g \in {h \in GameStates : h.BitFlags = 0 /\ h.Counter = 0
                                       /\ h.ItemLocations[1] \in {1, CARRIED}}}
    ELSE {ParsedGameState(TableCont)}

\* The raw values: the vocabulary code of a verb and a noun below 150, the
\* condition of a parameter and a code below 20, the text of a data file,
\* the five conditions of an action, a condition code with a parameter, a
\* word typed as verb or as noun
Jobs ==
    {[NoJob EXCEPT !.kind = "text", !.content = t] : t \in Texts}
    \cup
    {[NoJob EXCEPT !.kind = "conditions", !.conditions = cs] :
        cs \in [1..5 -> SlotValues]}
    \cup
    {[NoJob EXCEPT !.kind = "pair", !.code = k, !.parameter = p] :
        k \in PairCodes, p \in 0..2}
    \cup
    {[NoJob EXCEPT !.kind = "word", !.content = w, !.wordType = t] :
        w \in TypedWords, t \in {"verb", "noun"}}
    \cup
    {[NoJob EXCEPT !.kind = "vocab", !.verb = v, !.noun = n] :
        v \in 0..MaxVerb, n \in 0..149}
    \cup {[NoJob EXCEPT !.kind = "condition", !.code = k, !.parameter = p] :
        k \in 0..19, p \in 0..MaxParameter}

\* LoadGameData has a raw value of the data file before it
DataInit ==
    /\ job \in Jobs
    /\ result = NoResult
    /\ pc = "data"
    /\ state \in JobStates(job)
    /\ trailer = 0
    /\ lit = TRUE
    /\ chance = 0
    /\ disk = NoFile
    /\ saved = Persisted(state)
    /\ out = <<>>
    /\ scan = 0
    /\ input = NoInput
    /\ turn = 0
    /\ trace = <<>>
    /\ params = <<>>

\* LoadGameData decodes the vocabulary value of an action
DecodeVocab ==
    /\ job.kind = "vocab"
    /\ ~result.done
    /\ LET action == LoadAction(Vocab(job.verb, job.noun), NoConds, <<0, 0>>)
       IN result' = [result EXCEPT !.done = TRUE, !.verb = action.Verb,
                                   !.noun = action.Noun]
    /\ UNCHANGED <<job, session>>

\* CheckConditions decodes a raw condition
DecodeCondition ==
    /\ job.kind = "condition"
    /\ ~result.done
    /\ LET encodedCondition == Cond(job.code, job.parameter)
       IN result' = [result EXCEPT !.done = TRUE,
                                   !.code = ConditionCode(encodedCondition),
                                   !.parameter = ConditionParameter(encodedCondition)]
    /\ UNCHANGED <<job, session>>

\* LoadGameData tokenizes the content of the data file
Tokenize ==
    /\ job.kind = "text"
    /\ ~result.done
    /\ LET r == tokenizeGameData(job.content)
       IN result' = [result EXCEPT !.done = TRUE, !.tokens = r.tokens, !.err = r.err]
    /\ UNCHANGED <<job, session>>

\* CheckConditions on the action made of the job's five conditions
CheckAction ==
    /\ job.kind = "conditions"
    /\ ~result.done
    /\ result' = [result EXCEPT !.done = TRUE, !.check = CheckConditions(state, 0),
                                !.lines = ConditionLines(state, 0)]
    /\ UNCHANGED <<job, session>>

\* EvaluateCondition on a code and on the code of the opposite test
EvaluatePair ==
    /\ job.kind = "pair"
    /\ ~result.done
    /\ result' = [result EXCEPT
                    !.done = TRUE,
                    !.first = EvaluateCondition(state, job.code, job.parameter),
                    !.second = EvaluateCondition(state, NegationOf(job.code),
                                                 job.parameter)]
    /\ UNCHANGED <<job, session>>

\* ParseCommand resolves a word of the line as a verb or as a noun
ResolveWord ==
    /\ job.kind = "word"
    /\ ~result.done
    /\ result' = [result EXCEPT !.done = TRUE,
                                !.number = GetWordNumber(Words, job.content, job.wordType)]
    /\ UNCHANGED <<job, session>>

DataNext ==
    \/ DecodeVocab \/ DecodeCondition \/ Tokenize
    \/ CheckAction \/ EvaluatePair \/ ResolveWord

DataSpec == DataInit /\ [][DataNext]_vars

\* ------------------------------------------------------------------------
\* Properties
\* ------------------------------------------------------------------------
\* The action holds opcode 73 (CONT) in one of its four sub-commands
HoldsCont(action) ==
    \E i \in 0..1 : 73 \in {GoDiv(action.Commands[i], 150), GoMod(action.Commands[i], 150)}

\* The player's command has been dispatched through the action table
Dispatched == pc = "light" /\ input.kind = "words"

\* C1: on the table A (verb 5, CONT), B (verb 0/noun 0, conditions fail),
\* C (verb 0/noun 0, conditions pass, no CONT), the dispatch of a player
\* command of verb 5 executes A and then C, once each, and nothing else.
C1_ContChainRunsAThenC ==
    (Dispatched /\ state.Actions = TableCont /\ input.verb = 5) => trace = <<0, 2>>

\* C2: in the dispatch of a player command every action executed after the
\* one that opened the CONT chain is a later-indexed action with verb 0 and
\* noun 0.
C2_ChainRunsOnlyContinuationActions ==
    Dispatched =>
        \A k \in 2..Len(trace) :
            /\ trace[k] > trace[k - 1]
            /\ state.Actions[trace[k]].Verb = 0
            /\ state.Actions[trace[k]].Noun = 0

\* C3: in the dispatch of a player command an executed action that does not
\* hold CONT is the last action executed.
C3_ChainEndsAtActionWithoutCont ==
    Dispatched =>
        \A k \in 1..Len(trace) :
            ~HoldsCont(state.Actions[trace[k]]) => k = Len(trace)

\* C4: every automatic pass terminates.
C4_AutomaticPassTerminates == (pc = "auto") ~> (pc # "auto")

\* C5: when the first action executed for a player command does not hold
\* CONT, it is the only action executed, and it is the first action of its
\* verb and noun whose conditions pass.
C5_ScanStopsWithoutCont ==
    [][(pc = "command" /\ input.kind = "words" /\ Len(trace') >= 1
        /\ ~HoldsCont(state.Actions[trace'[1]]))
       => /\ Len(trace') = 1
          /\ state.Actions[trace'[1]].Verb = input.verb
          /\ \A j \in 0..(trace'[1] - 1) :
                ~(/\ state.Actions[j].Verb = input.verb
                  /\ state.Actions[j].Noun = state.Actions[trace'[1]].Noun
                  /\ CheckConditions(state, j) = "pass")]_vars

\* A command without CONT has been executed alone although a later action of
\* the same verb and noun passes its conditions
C5_Witness ==
    /\ Dispatched
    /\ Len(trace) = 1
    /\ ~HoldsCont(state.Actions[trace[1]])
    /\ \E j \in (trace[1] + 1)..NumActions(state) :
          /\ state.Actions[j].Verb = input.verb
          /\ state.Actions[j].Noun = state.Actions[trace[1]].Noun
          /\ CheckConditions(state, j) = "pass"

\* C6: the first action executed for a player command of verb v and noun n
\* is the lowest-indexed action of verb v and noun n or 0 whose conditions
\* pass.
C6_TableOrderDecides ==
    [][(pc = "command" /\ input.kind = "words" /\ Len(trace') >= 1)
       => \A j \in 0..(trace'[1] - 1) :
             ~(/\ state.Actions[j].Verb = input.verb
               /\ state.Actions[j].Noun \in {input.noun, 0}
               /\ CheckConditions(state, j) = "pass")]_vars

\* C7: every sub-command of the executed action takes its parameter from a
\* condition slot of that action (raw condition div 20), and the
\* sub-commands of one action take theirs from distinct condition slots.
C7_DistinctParameterSlots ==
    /\ \A p \in 1..Len(params) :
          /\ params[p].cmdPosition \in 0..4
          /\ params[p].parameter =
                GoDiv(state.Actions[state.CurrentAction].Conditions[params[p].cmdPosition], 20)
    /\ \A p, q \in 1..Len(params) :
          p # q => params[p].cmdPosition # params[q].cmdPosition

\* The LOAD of the last command opened the save file as SaveGame wrote it
LoadedOwnSave ==
    pc = "light" /\ input.kind = "load" /\ disk.exists /\ input.file = disk

\* C8: after a load of the file SaveGame wrote, the persisted fields of
\* GameState equal those of the GameState that was saved.
C8_SaveLoadRoundTrip == LoadedOwnSave => Persisted(state) = saved

\* A GameState that differs from the initial one in room, counter and flags
\* has been saved and loaded back
C8_Witness ==
    /\ LoadedOwnSave
    /\ out[Len(out)].text = "Game loaded."
    /\ state.CurrentRoom # state.Counter
    /\ state.CurrentRoom # PlayerRoom
    /\ state.BitFlags # 0

\* The file cannot be opened, is of another adventure, is truncated or holds
\* a line that is not a number
LoadMustFail(f) ==
    \/ ~f.exists
    \/ Len(f.lines) < 20 + NumItems
    \/ Atoi(f.lines[1]) # AdventureNumber
    \/ \E k \in 1..Len(f.lines) :
          ~IsDigits(IF Len(f.lines[k]) > 0 /\ f.lines[k][1] \in {"-", "+"}
                    THEN Tail(f.lines[k]) ELSE f.lines[k])

\* C9: a LoadGame that fails leaves GameState as it was.
C9_FailedLoadLeavesState ==
    [][(pc = "command" /\ input.kind = "load" /\ LoadMustFail(input.file))
       => state' = state]_vars

\* The file's first line is a number other than the running adventure's
OtherAdventure(f) ==
    f.exists /\ Len(f.lines) >= 1 /\ Atoi(f.lines[1]) # AdventureNumber

\* C10: LoadGame rejects a save file of another adventure and changes no
\* field of GameState.
C10_OtherAdventureRejected ==
    [][(pc = "command" /\ input.kind = "load" /\ OtherAdventure(input.file))
       => /\ state' = state
          /\ out'[Len(out')].text = "This save file is for a different adventure."]_vars

\* A complete save file of another adventure, holding a room other than the
\* current one, has been rejected
C10_Witness ==
    /\ pc = "light" /\ input.kind = "load" /\ OtherAdventure(input.file)
    /\ Len(input.file.lines) = 20 + NumItems
    /\ Atoi(input.file.lines[2]) # state.CurrentRoom
    /\ out[Len(out)].text = "This save file is for a different adventure."

\* The action has the single sub-command op
OnlyOpcode(action, op) == action.Commands[0] = Cmd(op, 0) /\ action.Commands[1] = 0

\* The command being processed runs exactly one action of the table, and
\* that action has the single sub-command op
RunsOnlyOpcode(op) ==
    /\ input.kind = "words"
    /\ ~(input.verb = 1 /\ input.noun >= 1 /\ input.noun <= 6)
    /\ ~(input.verb \in {10, 18} /\ input.noun > 0)
    /\ Len(trace') = 1
    /\ OnlyOpcode(state.Actions[trace'[1]], op)

\* The command being processed reaches the built-in handler of verb verb
\* (10 is GET, 18 is DROP), by the item's name or by the verb and noun
RunsBuiltin(verb, kind) ==
    \/ input.kind = kind
    \/ input.kind = "words" /\ input.verb = verb /\ Len(trace') = 0

\* C11: a GET (built-in or opcode 52) with MaxCarry items already carried
\* moves no item: every item location stays as it was.
C11_GetAtCarryLimitFails ==
    [][(pc = "command" /\ CarriedCount(state) = MaxCarry
        /\ (RunsBuiltin(10, "getname") \/ RunsOnlyOpcode(52)))
       => state'.ItemLocations = state.ItemLocations]_vars

\* A GET of an item that lies in the current room has been refused with
\* MaxCarry items carried
C11_Witness ==
    /\ pc = "light"
    /\ CarriedCount(state) = MaxCarry
    /\ Len(out) > 0 /\ out[Len(out)].text = "I'm carrying too much already."

\* The item the DROP being processed names
DropTarget ==
    IF input.kind = "dropname" THEN input.item
    ELSE IF RunsOnlyOpcode(53) THEN GoDiv(state.Actions[trace'[1]].Conditions[0], 20)
    ELSE input.noun

\* C12: a DROP (built-in or opcode 53) of an item that is not carried leaves
\* every item location and every other field of GameState as it was (the
\* executor's own record of the running action, CurrentAction, excepted).
C12_DropUncarriedFails ==
    [][(pc = "command"
        /\ (RunsBuiltin(18, "dropname") \/ RunsOnlyOpcode(53))
        /\ (~ItemIndexOk(DropTarget) \/ state.ItemLocations[DropTarget] # CARRIED))
       => state' = [state EXCEPT !.CurrentAction = state'.CurrentAction]]_vars

\* A DROP of an item that lies in the current room, not carried, has been
\* refused
C12_Witness ==
    /\ pc = "light"
    /\ input.kind \in {"dropname", "words"}
    /\ Len(out) > 0 /\ out[Len(out)].text = "I don't have that."
    /\ \E i \in 1..NumItems :
          /\ i = (IF input.kind = "dropname" THEN input.item
                  ELSE IF Len(trace) = 1 THEN GoDiv(state.Actions[trace[1]].Conditions[0], 20)
                  ELSE input.noun)
          /\ state.ItemLocations[i] = state.CurrentRoom

\* The turn RunGame is in: turn counts the lines read, and an iteration of
\* the loop reads its line after the automatic pass and the display
TurnNumber == IF pc \in {"start", "auto", "display", "input"} THEN turn + 1 ELSE turn

\* C13: with the light source carried on every turn (and never refilled),
\* flag 16 is set exactly from turn LightTime + 1 on, when LightTime
\* decrements have brought AltCounters[8] to 0, and at no earlier turn.
C13_LightRunsOutAfterLightTime ==
    (lit /\ pc \in {"start", "auto", "display", "input", "command", "light"})
        => /\ BitSet(state.BitFlags, LIGHTOUTBIT) <=> TurnNumber >= LightTime + 1
           /\ state.AltCounters[8] = LightTime - (TurnNumber - 1)

\* The light has been carried for LightTime turns and has just run out
C13_Witness ==
    /\ lit
    /\ pc = "start"
    /\ TurnNumber = LightTime + 1
    /\ BitSet(state.BitFlags, LIGHTOUTBIT)
    /\ state.AltCounters[8] = 0

\* C14: after opcode 69 (FILL) the light counter equals LightTime, flag 16
\* is clear and the light source is carried, wherever it was; no other item
\* location, flag, counter or room register changes.
C14_FillRefillsLight ==
    [][(pc = "command" /\ RunsOnlyOpcode(69))
       => /\ state'.AltCounters[8] = LightTime
          /\ ~BitSet(state'.BitFlags, LIGHTOUTBIT)
          /\ state'.ItemLocations[LIGHT_SOURCE] = CARRIED
          /\ \A i \in (0..NumItems) \ {LIGHT_SOURCE} :
                state'.ItemLocations[i] = state.ItemLocations[i]
          /\ state'.BitFlags \in {state.BitFlags, state.BitFlags - 2 ^ LIGHTOUTBIT}
          /\ state'.Counter = state.Counter
          /\ \A m \in 0..7 : state'.AltCounters[m] = state.AltCounters[m]
          /\ state'.CurrentRoom = state.CurrentRoom
          /\ state'.AltRooms = state.AltRooms]_vars

\* FILL has been executed by the action whose conditions require the light
\* source destroyed and flag 16 set
C14_Witness ==
    /\ pc = "light"
    /\ state.Actions = TableItems
    /\ trace = <<3>>
    /\ state.ItemLocations[LIGHT_SOURCE] = CARRIED
    /\ ~BitSet(state.BitFlags, LIGHTOUTBIT)
    /\ state.AltCounters[8] = LightTime

\* C15: the primary counter never falls below -1.
C15_CounterFloor == state.Counter >= -1

\* C16: the current room is always a room of the adventure, or 0.
C16_CurrentRoomInRange == state.CurrentRoom >= 0 /\ state.CurrentRoom <= NumRooms

\* C17: every item is destroyed (0), carried (255) or in a room 1..NumRooms.
C17_ItemLocationsValid ==
    \A i \in 0..NumItems :
        state.ItemLocations[i] \in ({DESTROYED, CARRIED} \cup (1..NumRooms))

\* The action names an item the adventure does not have in a condition, or
\* a message it does not have in a command
OutOfRangeIndex(action) ==
    \/ \E j \in 0..4 :
          /\ action.Conditions[j] # 0
          /\ GoMod(action.Conditions[j], 20) \in {1, 2, 3, 5, 6, 12, 13, 14, 17, 18}
          /\ GoDiv(action.Conditions[j], 20) > NumItems
    \/ \E i \in 0..1 : \E cmd \in {GoDiv(action.Commands[i], 150),
                                     GoMod(action.Commands[i], 150)} :
          /\ action.Commands[i] # 0
          /\ \/ cmd >= 1 /\ cmd <= 51 /\ cmd > HeaderNumMessages(state.Actions)
             \/ cmd >= 102 /\ cmd <= 149 /\ cmd - 50 > HeaderNumMessages(state.Actions)

\* C18: a player command that selects an action with an index out of range
\* in a condition or a command does not end the session: the turn goes on
\* to the light update.
C18_OutOfRangeIndexIsHarmless ==
    [][(pc = "command" /\ input.kind = "words"
        /\ \E i \in DOMAIN state.Actions :
              /\ state.Actions[i].Verb = input.verb
              /\ state.Actions[i].Noun = input.noun
              /\ OutOfRangeIndex(state.Actions[i]))
       => pc' = "light"]_vars

\* C19: LoadGameData succeeds exactly when the checksum of the trailer is
\* 2 * NumActions + NumItems + AdventureVersion, and otherwise returns an
\* error; for 169 actions, 65 items and version 416 the only checksum
\* accepted is 819.
C19_ChecksumDecidesLoad ==
    [][pc = "load"
       => /\ pc' = "start" <=> trailer = 2 * NumActions(state) + NumItems + AdventureVersion
          /\ pc' \in {"start", "loaderror"}
          /\ \A k \in 0..2000 : ChecksumOk(k, 169, 65, 416) <=> k = 819]_vars

\* A data file whose checksum is one more than expected has been refused
C19_Witness ==
    /\ pc = "loaderror"
    /\ trailer = 2 * NumActions(state) + NumItems + AdventureVersion + 1

\* C20: in the automatic pass a verb-0 action with noun n > 0 whose
\* conditions pass is executed exactly when the number r drawn from 1..100
\* is at most n, so always when n = 100; a verb-0 action with noun 0 whose
\* conditions pass is always executed, and no number is drawn for it.
C20_PercentGate ==
    [][(pc = "auto" /\ scan <= NumActions(state) /\ state.Actions[scan].Verb = 0
        /\ Len(trace) < MaxTrace /\ CheckConditions(state, scan) = "pass")
       => LET n == state.Actions[scan].Noun
              executed == trace' = Append(trace, scan)
          IN /\ n > 0 => chance' \in 1..100 /\ (executed <=> chance' <= n)
             /\ n = 100 => executed
             /\ n = 0 => chance' = 0 /\ executed]_vars

\* An action of 50 percent has been executed on the draw 50
C20_Witness ==
    /\ pc = "auto"
    /\ chance = 50
    /\ scan > 0
    /\ state.Actions[scan - 1].Verb = 0
    /\ state.Actions[scan - 1].Noun = 50
    /\ Len(trace) > 0 /\ trace[Len(trace)] = scan - 1

\* C21: decoding the raw vocabulary code verb * 150 + noun yields the verb
\* and the noun, for every verb >= 0 and every noun in 0..149.
C21_DecodeVocabRoundTrip ==
    (job.kind = "vocab" /\ result.done)
        => result.verb = job.verb /\ result.noun = job.noun

\* The code of the largest verb and the noun 149 has been decoded
C21_Witness ==
    /\ job.kind = "vocab" /\ result.done
    /\ job.verb = MaxVerb /\ job.noun = 149
    /\ result.verb = MaxVerb /\ result.noun = 149

\* C22: decoding the raw condition parameter * 20 + code yields the code
\* and the parameter, for every parameter >= 0 and every code in 0..19.
C22_DecodeConditionRoundTrip ==
    (job.kind = "condition" /\ result.done)
        => result.code = job.code /\ result.parameter = job.parameter

\* The condition of the largest parameter and the code 19 has been decoded
C22_Witness ==
    /\ job.kind = "condition" /\ result.done
    /\ job.parameter = MaxParameter /\ job.code = 19
    /\ result.parameter = MaxParameter /\ result.code = 19

\* C23: after a successful LoadGameData the player is in PlayerRoom, the
\* light counter holds LightTime, every flag is clear, the counter is 0,
\* ContinueFlag is false and every item is at its original location.
C23_InitialGameState ==
    [][(pc = "load" /\ pc' = "start")
       => /\ state'.CurrentRoom = PlayerRoom
          /\ state'.AltCounters[8] = LightTime
          /\ state'.BitFlags = 0
          /\ state'.Counter = 0
          /\ ~state'.ContinueFlag
          /\ \A i \in 0..NumItems : state'.ItemLocations[i] = OriginalLocation[i]]_vars

\* LoadGameData has succeeded and RunGame has not started its first pass
C23_Witness ==
    /\ pc = "start" /\ turn = 0
    /\ state.CurrentRoom = PlayerRoom /\ PlayerRoom # 0
    /\ state.AltCounters[8] = LightTime /\ LightTime # 0
    /\ \E i \in 0..NumItems : state.ItemLocations[i] # 0

\* C24: opcode 63 (FINI) ends the process at once: it is the last
\* sub-command executed and its line the last output, the action holding it
\* is the last action executed, and no step follows.
C24_FiniIsTerminal ==
    [][/\ pc # "exited"
       /\ pc' = "exited"
             => /\ Len(params') > 0 /\ params'[Len(params')].cmd = 63
                /\ Len(out') > 0
                /\ out'[Len(out')].text = "Game over! You've completed the adventure!"
                /\ Len(trace') > 0 /\ trace'[Len(trace')] = state'.CurrentAction]_vars

\* FINI has been executed as the first sub-command of a pair whose second
\* sub-command is a message
C24_Witness ==
    /\ pc = "exited"
    /\ Len(params) = 1 /\ params[1].cmd = 63
    /\ GoMod(state.Actions[state.CurrentAction].Commands[0], 150) # 0

\* C25: an empty line, or a line whose first word is not in the vocabulary
\* (the parser yields verb 0), does not end the session and is answered
\* with the not-understood message.
C25_InputErrorNotUnderstood ==
    [][(pc = "command"
        /\ (input.kind = "empty" \/ (input.kind = "words" /\ input.verb = 0)))
       => /\ pc' = "light"
          /\ Len(out') > 0
          /\ out'[Len(out')].text = "I don't understand how to do that."]_vars

\* C26: when the table has an action of the player's verb (GET is 10,
\* DROP 18) and noun whose conditions pass, that action is executed and the
\* built-in handler is not.
C26_BuiltinGetDropIsFallback ==
    [][(pc = "command" /\ input.kind = "words" /\ input.verb \in {10, 18}
        /\ \E i \in DOMAIN state.Actions :
              /\ state.Actions[i].Verb = input.verb
              /\ state.Actions[i].Noun = input.noun
              /\ CheckConditions(state, i) = "pass")
       => /\ Len(trace') >= 1
          /\ state.Actions[trace'[1]].Verb = input.verb
          /\ state'.ItemLocations = state.ItemLocations]_vars

\* C27: input is read only after the location display that follows a
\* complete automatic pass; a pass starts at the beginning of RunGame's
\* iteration, which follows the load or the light update; the light update
\* follows the processing of the command, which follows the read.  So a
\* complete pass lies before every read and between a command and the next
\* read, and the light update of a turn comes after the command.
C27_TurnOrder ==
    [][/\ pc' = "input" => pc = "display"
       /\ pc' = "display" => (pc = "auto" /\ scan > NumActions(state))
       /\ (pc' = "auto" /\ pc # "auto") => (pc = "start" /\ scan' = 0)
       /\ pc' = "start" => pc \in {"load", "light"}
       /\ pc' = "light" => pc = "command"
       /\ pc' = "command" => pc = "input"]_vars

\* The engine waits for the second line of input, and the automatic pass
\* that followed the first command has executed an action
C27_Witness ==
    /\ pc = "input" /\ turn = 1
    /\ Len(trace) > 0 /\ state.Actions[trace[1]].Verb = 0

\* C29: ContinueFlag is false whenever no dispatch pass is running: while
\* the engine waits for input, when the command has been processed and the
\* light update runs, and between the light update and the next pass.
C29_ContinueFlagOnlyInPass ==
    pc \in {"display", "input", "light", "start"} => ~state.ContinueFlag

\* The sub-commands of an action, in the order ExecuteCommands runs them
SubCommands(action) ==
    <<GoDiv(action.Commands[0], 150), GoMod(action.Commands[0], 150),
      GoDiv(action.Commands[1], 150), GoMod(action.Commands[1], 150)>>

\* One sub-command of the action is opcode 62, 72 or 75 and the others are
\* messages, no-ops or the setting of a flag
OneItemOpcode(action) ==
    /\ Cardinality({j \in 1..4 : SubCommands(action)[j] \in {62, 72, 75}}) = 1
    /\ \A j \in 1..4 : SubCommands(action)[j] \in (0..51) \cup {58, 62, 72, 75}

\* C30: opcode 62, 72 or 75 executed at the position whose parameter p1 is
\* that of condition slot k takes p2 from slot k + 1; 62 puts item p1 in
\* room p2, 72 exchanges the locations of items p1 and p2, 75 puts item p1
\* where item p2 is, and no other item location changes.
C30_TwoParameterOpcodes ==
    [][(/\ pc = "command" /\ pc' = "light"
        /\ input.kind = "words" /\ Len(trace') = 1
        /\ OneItemOpcode(state.Actions[trace'[1]]))
       => \A j \in 1..Len(params') :
            params'[j].cmd \in {62, 72, 75} =>
              LET a == state.Actions[trace'[1]]
                  k == params'[j].cmdPosition
                  p1 == GoDiv(a.Conditions[k], 20)
                  p2 == GoDiv(a.Conditions[k + 1], 20)
                  loc == state.ItemLocations
              IN /\ params'[j].parameter = p1
                 /\ state'.ItemLocations =
                      CASE params'[j].cmd = 62 -> [loc EXCEPT ![p1] = p2]
                        [] params'[j].cmd = 72 ->
                             [loc EXCEPT ![p1] = loc[p2], ![p2] = loc[p1]]
                        [] params'[j].cmd = 75 -> [loc EXCEPT ![p1] = loc[p2]]]_vars

\* Item 2 has been moved to room 2 by opcode 62 at position 1, whose room
\* comes from condition slot 2
C30_Witness ==
    /\ pc = "light" /\ state.Actions = TableMoves
    /\ Len(params) = 2 /\ params[2].cmd = 62 /\ params[2].cmdPosition = 1
    /\ state.ItemLocations[2] = 2 /\ OriginalLocation[2] # 2

\* Items 1 and 3 have exchanged their locations by opcode 72
C30_WitnessSwap ==
    /\ pc = "light" /\ state.Actions = TableMoves
    /\ Len(params) >= 1 /\ params[1].cmd = 72 /\ params[1].cmdPosition = 0
    /\ state.ItemLocations[1] = OriginalLocation[3]
    /\ state.ItemLocations[3] = OriginalLocation[1]
    /\ OriginalLocation[1] # OriginalLocation[3]

\* The mode at each character of a text, read from left to right: "open"
\* at a quote that opens a string, "quoted" from there to the closing
\* quote, "comment" from a // outside a string to the end of the line,
\* "space" at a blank or line end outside both, "word" elsewhere; last is
\* the mode the end of the text is reached in
RECURSIVE ModesFrom(_, _, _, _)
ModesFrom(content, i, mode, modes) ==
    IF i > Len(content) THEN [modes |-> modes, last |-> mode]
    ELSE LET ch == content[i]
         IN IF mode = "quoted"
            THEN ModesFrom(content, i + 1, IF ch = 34 THEN "out" ELSE "quoted",
                           Append(modes, "quoted"))
            ELSE IF mode = "comment"
            THEN IF ch \in {10, 13}
                 THEN ModesFrom(content, i + 1, "out", Append(modes, "space"))
                 ELSE ModesFrom(content, i + 1, "comment", Append(modes, "comment"))
            ELSE IF ch = 34
            THEN ModesFrom(content, i + 1, "quoted", Append(modes, "open"))
            ELSE IF ch = 47 /\ i < Len(content) /\ content[i + 1] = 47
            THEN ModesFrom(content, i + 1, "comment", Append(modes, "comment"))
            ELSE IF ch \in {9, 10, 11, 12, 13, 32, 133, 160}
            THEN ModesFrom(content, i + 1, "out", Append(modes, "space"))
            ELSE ModesFrom(content, i + 1, "out", Append(modes, "word"))

\* The tokens the claim expects of a text with balanced quotes: every
\* quoted string from its opening to its closing quote, verbatim, and every
\* maximal run of word characters, in the order of the text
ExpectedTokens(content) ==
    LET modes == ModesFrom(content, 1, "out", <<>>).modes
        n == Len(content)
        starts == {i \in 1..n :
                     \/ modes[i] = "open"
                     \/ modes[i] = "word" /\ (i = 1 \/ modes[i - 1] # "word")}
        body(i) == IF modes[i] = "open" THEN "quoted" ELSE "word"
        end(i) == CHOOSE j \in i..n :
                     /\ \A m \in (i + 1)..j : modes[m] = body(i)
                     /\ (j = n \/ modes[j + 1] # body(i))
        nth(k) == CHOOSE i \in starts : Cardinality({j \in starts : j < i}) = k - 1
    IN [k \in 1..Cardinality(starts) |-> SubSeq(content, nth(k), end(nth(k)))]

\* C28: tokenizeGameData fails exactly when the end of the text is reached
\* inside a quoted string; otherwise its tokens are the quoted strings,
\* verbatim up to the closing quote (line ends and // included), and the
\* words outside strings and comments, a // outside a string discarding
\* the rest of its line, quotes included.
C28_TokenizerQuotesAndComments ==
    (job.kind = "text" /\ result.done)
    => /\ result.err = (ModesFrom(job.content, 1, "out", <<>>).last = "quoted")
       /\ ~result.err => result.tokens = ExpectedTokens(job.content)

\* A string that holds a line end and a // is one token
C28_Witness ==
    /\ job.kind = "text" /\ result.done /\ ~result.err
    /\ job.content = <<34, 10, 47, 47, 34>>
    /\ result.tokens = <<job.content>>

\* A comment that holds a quote and is followed by a word on the next line
C28_WitnessComment ==
    /\ job.kind = "text" /\ result.done /\ ~result.err
    /\ job.content = <<47, 47, 34, 10, 97>>
    /\ result.tokens = << <<97>> >>

\* The text ends inside a string
C28_WitnessError ==
    /\ job.kind = "text" /\ result.done /\ result.err
    /\ job.content = <<97, 34, 97>>

\* C31: the light update of a turn decrements AltCounters[8] exactly when
\* the light source is carried and the light-exhausted flag (bit 16) is
\* clear; with bit 16 set the counter is not decremented.
C31_LightDecrementNeedsFlagClear ==
    [][pc = "light"
       => state'.AltCounters[8] =
            IF state.ItemLocations[LIGHT_SOURCE] = CARRIED
               /\ ~BitSet(state.BitFlags, LIGHTOUTBIT)
            THEN state.AltCounters[8] - 1
            ELSE state.AltCounters[8]]_vars

\* The command being processed runs exactly one action of the table, whose
\* first pair is opcode op twice with the same parameter and whose second
\* pair is empty
RunsOpcodeTwice(op) ==
    /\ input.kind = "words"
    /\ Len(trace') = 1
    /\ LET action == state.Actions[trace'[1]]
       IN /\ action.Commands[0] = Cmd(op, op) /\ action.Commands[1] = 0
          /\ GoDiv(action.Conditions[0], 20) = GoDiv(action.Conditions[1], 20)

\* The parameter of the first sub-command of the action being run
FirstParameter == GoDiv(state.Actions[trace'[1]].Conditions[0], 20)

\* C32: opcode 80 exchanges CurrentRoom with AltRooms[0], opcode 87 with
\* AltRooms[c], opcode 81 exchanges Counter with AltCounters[m]; each of the
\* two then holds the other's previous value, the other registers keep
\* theirs, and the same exchange twice in a row restores all four.
C32_RegisterOpcodesSwap ==
    [][pc = "command" /\ pc' = "light"
       => /\ \A op \in {80, 87} : RunsOnlyOpcode(op) =>
                LET k == IF op = 80 THEN 0 ELSE FirstParameter
                IN /\ state'.CurrentRoom = state.AltRooms[k]
                   /\ state'.AltRooms[k] = state.CurrentRoom
                   /\ \A j \in 0..5 : j # k => state'.AltRooms[j] = state.AltRooms[j]
                   /\ state'.Counter = state.Counter
                   /\ state'.AltCounters = state.AltCounters
          /\ RunsOnlyOpcode(81) =>
                LET m == FirstParameter
                IN /\ state'.Counter = state.AltCounters[m]
                   /\ state'.AltCounters[m] = state.Counter
                   /\ \A j \in 0..8 : j # m => state'.AltCounters[j] = state.AltCounters[j]
                   /\ state'.CurrentRoom = state.CurrentRoom
                   /\ state'.AltRooms = state.AltRooms
          /\ \A op \in {80, 81, 87} : RunsOpcodeTwice(op) =>
                /\ state'.CurrentRoom = state.CurrentRoom
                /\ state'.Counter = state.Counter
                /\ state'.AltRooms = state.AltRooms
                /\ state'.AltCounters = state.AltCounters]_vars

\* The room and alternate room 2 have exchanged values that differ
C32_Witness ==
    /\ pc = "light" /\ state.Actions = TableRegisters /\ turn = 1
    /\ trace = <<2>>
    /\ state.CurrentRoom = 0 /\ state.AltRooms[2] = PlayerRoom /\ PlayerRoom # 0

\* The counter and alternate counter 8 have exchanged values that differ
C32_WitnessCounter ==
    /\ pc = "light" /\ state.Actions = TableRegisters /\ turn = 1
    /\ trace = <<4>>
    /\ state.Counter = LightTime /\ state.AltCounters[8] = 0 /\ LightTime # 0

\* The room has been exchanged twice with alternate room 0, whose value
\* differed from the room
C32_WitnessTwice ==
    /\ pc = "light" /\ state.Actions = TableRegisters /\ turn = 2
    /\ trace = <<1>>
    /\ state.CurrentRoom # state.AltRooms[0]

\* C37: opcode 83 sets Counter to the larger of Counter - n and -1, so the
\* counter is not below -1 afterwards, and changes no other field (the
\* index of the action being run is set by ExecuteCommands).
C37_CounterMinusFloorsAtMinusOne ==
    [][(pc = "command" /\ pc' = "light" /\ RunsOnlyOpcode(83))
       => LET d == state.Counter - FirstParameter
          IN /\ state'.Counter = (IF d > -1 THEN d ELSE -1)
             /\ state'.Counter >= -1
             /\ state' = [state EXCEPT !.Counter = state'.Counter,
                                       !.CurrentAction = state'.CurrentAction]]_vars

\* 2 has been subtracted from a counter of 0
C37_Witness ==
    /\ pc = "light" /\ state.Actions = TableRegisters /\ turn = 1
    /\ trace = <<6>> /\ state.Counter = -1

\* 2 has been subtracted from a counter of LightTime, got from alternate
\* counter 8, without reaching the floor
C37_WitnessAboveFloor ==
    /\ pc = "light" /\ state.Actions = TableRegisters /\ turn = 2
    /\ trace = <<6>> /\ state.Counter = LightTime - 2 /\ LightTime - 2 > -1

\* The step leaves every field but the flags as it was (the index of the
\* action being run is set by ExecuteCommands), flag z is set or clear as
\* asked, and every other flag is as before
OnlyFlagChanges(z, set) ==
    /\ \A b \in 0..30 :
          BitSet(state'.BitFlags, b) = IF b = z THEN set ELSE BitSet(state.BitFlags, b)
    /\ state' = [state EXCEPT !.BitFlags = state'.BitFlags,
                              !.CurrentAction = state'.CurrentAction]

\* C40: opcodes 58 and 60 with parameter z set and clear flag z and change
\* no other flag and no other field; opcodes 56 and 57 do the same to flag
\* 15, opcodes 67 and 68 to flag 0.
C40_FlagsAreIndependent ==
    [][pc = "command" /\ pc' = "light"
       => /\ \A op \in {58, 60} :
                (RunsOnlyOpcode(op) /\ FirstParameter \in 0..30)
                => OnlyFlagChanges(FirstParameter, op = 58)
          /\ \A op \in {56, 57} : RunsOnlyOpcode(op) => OnlyFlagChanges(DARKBIT, op = 56)
          /\ \A op \in {67, 68} : RunsOnlyOpcode(op) => OnlyFlagChanges(0, op = 67)]_vars

\* NIGHT has set flag 15 while flag 30, set the turn before, stays set
C40_Witness ==
    /\ pc = "light" /\ state.Actions = TableFlags /\ turn = 2
    /\ trace = <<1>>
    /\ BitSet(state.BitFlags, DARKBIT) /\ BitSet(state.BitFlags, 30)

\* Flag 0 has been cleared by opcode 68 while flag 15 stays set
C40_WitnessClear ==
    /\ pc = "light" /\ state.Actions = TableFlags /\ turn = 3
    /\ trace = <<7>>
    /\ ~BitSet(state.BitFlags, 0) /\ BitSet(state.BitFlags, DARKBIT)
    /\ input.verb = 5 /\ input.noun = 1

\* The message a message opcode names: c for 1..51, c - 50 for 102..151
MessageOf(op) == IF op <= 51 THEN op ELSE op - 50

\* C35: a sub-command with opcode c in 1..51 emits message c, one with
\* opcode c in 102..151 emits message c - 50 (where the adventure has that
\* message), and no field of GameState changes (the index of the action
\* being run is set by ExecuteCommands).
C35_MessageOpcodesArePureOutput ==
    [][pc = "command"
       => \A op \in (1..51) \cup (102..151) :
            (RunsOnlyOpcode(op) /\ MessageOf(op) <= HeaderNumMessages(state.Actions))
            => /\ pc' = "light"
               /\ out' = <<[text |-> "message", arg |-> MessageOf(op)]>>
               /\ state' = [state EXCEPT !.CurrentAction = state'.CurrentAction]]_vars

\* C39: an automatic pass starts at index 0 and ends past the last index;
\* at each index the action is executed exactly when its verb is 0, the
\* draw does not exceed a nonzero noun and its conditions pass, and is
\* otherwise passed over without effect; unless the executed action holds
\* CONT the pass goes on to the next index, so every passing automatic
\* action runs once, in table order.
C39_AutomaticPassRunsAllPassing ==
    [][/\ (pc = "start" /\ pc' = "auto") => scan' = 0
       /\ (pc = "auto" /\ pc' = "display") => scan > NumActions(state)
       /\ (pc = "auto" /\ pc' = "auto" /\ Len(trace) < MaxTrace)
            => LET action == state.Actions[scan]
                   runs == /\ action.Verb = 0
                           /\ ~(action.Noun > 0 /\ chance' > action.Noun)
                           /\ CheckConditions(state, scan) = "pass"
               IN /\ scan <= NumActions(state)
                  /\ runs => trace' = Append(trace, scan)
                  /\ ~runs => (trace' = trace /\ state' = state)
                  /\ (~runs \/ ~HoldsCont(action)) => scan' = scan + 1]_vars

\* A pass has ended in which two automatic actions were executed, neither
\* holding CONT
C39_Witness ==
    /\ pc = "display" /\ state.Actions = TableParams
    /\ trace = <<3, 4>>
    /\ ~HoldsCont(state.Actions[3]) /\ ~HoldsCont(state.Actions[4])

\* C36: once the adventure is loaded no step changes the world: header,
\* rooms, actions, words, messages and the original location of every item
\* stay as LoadGameData has read them, through the automatic pass, the
\* player's command with any opcode, the light update, SAVE and LOAD.
C36_WorldIsNotMutated ==
    [][pc # "load"
        => /\ state'.Header = state.Header
           /\ state'.Rooms = state.Rooms
           /\ state'.Actions = state.Actions
           /\ state'.Words = state.Words
           /\ state'.Messages = state.Messages
           /\ \A i \in 0..NumItems :
                 state'.Items[i].OriginalLocation = state.Items[i].OriginalLocation]_vars

\* A saved game has been loaded in the last turn of a session in which
\* items have moved
C36_Witness ==
    /\ pc = "light" /\ turn = MaxTurns
    /\ input.kind = "load" /\ input.file.exists
    /\ state.ItemLocations # OriginalLocation

\* The raw condition in slot j of the action of a job of five conditions
SlotRaw(j) == state.Actions[0].Conditions[j]

\* The slot is not empty and names an item out of range
SlotPanics(j) ==
    SlotRaw(j) # 0 /\ ConditionPanics(GoMod(SlotRaw(j), 20), GoDiv(SlotRaw(j), 20))

\* The slot is empty or its condition is true in the game state
SlotHolds(j) ==
    \/ SlotRaw(j) = 0
    \/ ~SlotPanics(j) /\ EvaluateCondition(state, GoMod(SlotRaw(j), 20), GoDiv(SlotRaw(j), 20))

\* C33: CheckConditions passes exactly when each of the five slots is raw
\* 0 or true; the slots are taken left to right and nothing after the
\* first failing slot is evaluated, so a slot after it that could not be
\* evaluated (an item out of range) has no effect.
C33_CheckConditionsShortCircuits ==
    (job.kind = "conditions" /\ result.done)
    => LET stops == {j \in 0..4 : ~SlotHolds(j)}
           first == CHOOSE j \in stops : \A k \in stops : j <= k
       IN /\ (result.check = "pass") = (stops = {})
          /\ stops # {} =>
                result.check = IF SlotPanics(first) THEN "panic" ELSE "fail"

\* The second slot fails and the fourth names an item out of range
C33_Witness ==
    /\ job.kind = "conditions" /\ result.done /\ result.check = "fail"
    /\ SlotHolds(0) /\ SlotRaw(0) # 0
    /\ ~SlotHolds(1) /\ ~SlotPanics(1)
    /\ SlotPanics(3)

\* Every slot is empty or true, and two are not empty
C33_WitnessPass ==
    /\ job.kind = "conditions" /\ result.done /\ result.check = "pass"
    /\ Cardinality({j \in 0..4 : SlotRaw(j) # 0 /\ GoMod(SlotRaw(j), 20) # 0}) = 2

\* C38: in every game state and for every parameter in range exactly one
\* of a condition and its opposite is true: (1, 6), (2, 5), (3, 12),
\* (4, 7), (8, 9), (10, 11), (13, 14), (15, 16), (17, 18).
C38_ConditionsAreNegationPairs ==
    (job.kind = "pair" /\ result.done) => result.first # result.second

\* Item 1 is in another room: AVL is false and -AVL true
C38_Witness ==
    /\ job.kind = "pair" /\ result.done
    /\ job.code = 3 /\ job.parameter = 1
    /\ state.ItemLocations[1] \notin {CARRIED, state.CurrentRoom, DESTROYED}
    /\ ~result.first /\ result.second

\* Item 1 is in the room and not carried: AVL is true and -AVL false
C38_WitnessInRoom ==
    /\ job.kind = "pair" /\ result.done
    /\ job.code = 3 /\ job.parameter = 1
    /\ state.ItemLocations[1] = state.CurrentRoom
    /\ result.first /\ ~result.second

\* The kind of the section of the vocabulary the word at index i (counted
\* from 0) is listed in
SectionOf(i) == IF i < Len(VerbWords) THEN "verb" ELSE "noun"

\* The indexes of the synonyms of the vocabulary
Synonyms == {i \in 0..(Len(Vocabulary) - 1) : Vocabulary[i + 1][1] = "*"}

\* The nearest word before the synonym at i that is not a synonym
BaseOf(i) ==
    LET before == {j \in 0..(i - 1) : Vocabulary[j + 1][1] # "*"}
    IN CHOOSE j \in before : \A k \in before : k <= j

\* C34: a synonym typed as a word of the kind of its section resolves to
\* the number of the nearest word before it that is not a synonym, which is
\* the number that word resolves to when typed itself.
C34_SynonymResolvesToBaseWord ==
    (job.kind = "word" /\ result.done)
    => \A i \in Synonyms :
         (job.content = Tail(Vocabulary[i + 1]) /\ job.wordType = SectionOf(i))
         => /\ result.number = BaseOf(i)
            /\ result.number = GetWordNumber(Words, Vocabulary[BaseOf(i) + 1], SectionOf(i))

====
